---- MODULE Spec2Model ----
(***************************************************************************)
(* Ball-by-ball match state (StateManager) and narrative classification    *)
(* (LogicEngine, pivot_detector) of the cricket commentary engine.         *)
(*                                                                         *)
(* The replay loop feeds deliveries one at a time: StateManager.update     *)
(* mutates the single MatchState aggregate, LogicEngine.analyze reads the  *)
(* state after the ball together with the ball itself.                     *)
(***************************************************************************)
EXTENDS Integers, Sequences, FiniteSets, TLC

VARIABLES
    state,                    \* StateManager.state : MatchState
    _next_batting_position,   \* StateManager._next_batting_position
    ball,                     \* the delivery of the current loop iteration
    result,                   \* LogicResult of the current iteration, or None
    n_fed,                    \* deliveries consumed from the feed so far
    special_fed,              \* whether one of them came from SpecialDeliveries
    replay,                   \* 1 for the first replay of the feed, 2 for the second
    recorded,                 \* what the first replay produced, delivery by delivery
    previous_phase,           \* precompute: phase at the last completed over
    previous_overs_completed, \* precompute: overs completed when last looked at
    context,                  \* precompute: context of the current iteration, or None
    ball_rows,                \* the delivery rows of the innings, as stored
    context_updates,          \* what precompute_match_context stored, or None
    target_context            \* what precompute_ball_context returned, or None

vars == <<state, _next_batting_position, ball, result, n_fed, special_fed,
          replay, recorded, previous_phase, previous_overs_completed, context,
          ball_rows, context_updates, target_context>>

\* Python None, as held by an Optional[str] field.  An Optional field whose
\* value is structured (a formatted text) is the empty sequence for None and
\* a one-element sequence otherwise.
None == "None"

\* Python truthiness of an Optional[str]: None and "" are falsy
Truthy(x) == x # None /\ x # ""

Max(a, b) == IF a >= b THEN a ELSE b

RECURSIVE SumSeq(_)
SumSeq(q) == IF q = <<>> THEN 0 ELSE Head(q) + SumSeq(Tail(q))

(***************************************************************************)
(* Bounds of the model                                                     *)
(***************************************************************************)
\* deliveries fed in one replay of the general feed
MaxBalls == 7
\* deliveries fed in one replay of the wicket feed
MaxWicketBalls == 11
\* deliveries of a feed that is replayed twice
MaxReplayBalls == 3
\* deliveries fed to a chase that is already under way
MaxChaseBalls == 2
\* deliveries, and wickets among them, of the feed that spreads wickets out
MaxCollapseBalls == 20
MaxCollapseWickets == 3
\* deliveries fed to the innings replay after its opening, and the wickets
\* of the opening that is made of wickets
MaxInningsBalls == 2
WicketPrefix == 8
\* stored rows of the innings the two precompute functions are run on
MaxRows == 3
\* chase targets of the replays (besides 0, the first innings)
SmallTarget == 4
LargeTarget == 300
Targets == {0, SmallTarget, LargeTarget}

(***************************************************************************)
(* models.py: records                                                      *)
(***************************************************************************)
BallEvent(batter, non_batter, bowler, runs, extras, extras_type, is_wicket, wicket_type, dismissal_batter, is_boundary, is_six) ==
    [batter |-> batter, non_batter |-> non_batter, bowler |-> bowler,
     runs |-> runs, extras |-> extras, extras_type |-> extras_type,
     is_wicket |-> is_wicket, wicket_type |-> wicket_type,
     dismissal_batter |-> dismissal_batter,
     is_boundary |-> is_boundary, is_six |-> is_six]

BatterStats(name, position) ==
    [name |-> name, runs |-> 0, balls_faced |-> 0, fours |-> 0, sixes |-> 0,
     dots |-> 0, is_out |-> FALSE, position |-> position]

BowlerStats(name) ==
    [name |-> name, balls_bowled |-> 0, runs_conceded |-> 0, wickets |-> 0,
     maidens |-> 0, dots |-> 0, fours_conceded |-> 0, sixes_conceded |-> 0,
     wides |-> 0, noballs |-> 0]

MatchState(batting_team, bowling_team, target) ==
    [batting_team |-> batting_team, bowling_team |-> bowling_team,
     target |-> target,
     total_runs |-> 0, wickets |-> 0, overs_completed |-> 0,
     balls_in_current_over |-> 0, total_balls_bowled |-> 0,
     last_6_balls |-> <<>>, consecutive_dots |-> 0,
     current_over_runs |-> 0, current_over_wickets |-> 0,
     batters |-> <<>>, bowlers |-> <<>>,
     current_batter |-> None, current_bowler |-> None, non_batter |-> None,
     previous_batter |-> None, previous_bowler |-> None,
     partnership_runs |-> 0, partnership_balls |-> 0, partnership_number |-> 1,
     fall_of_wickets |-> <<>>, over_runs_history |-> <<>>,
     total_fours |-> 0, total_sixes |-> 0, total_extras |-> 0,
     total_wides |-> 0, total_noballs |-> 0,
     balls_since_last_boundary |-> 0, balls_since_last_wicket |-> 0,
     batting_order |-> <<>>,
     is_new_bowler |-> FALSE, is_new_over |-> FALSE,
     is_strike_change |-> FALSE, is_new_batter |-> FALSE,
     new_batter_name |-> None, previous_over_summary |-> <<>>]

\* mutant: the position counter is shared by all managers of the process
StateManager_shared_counter(batting_team, bowling_team, target) ==
    <<MatchState(batting_team, bowling_team, target),
      IF n_fed = 0 THEN 1 ELSE _next_batting_position>>

\* StateManager.__init__: <<state, _next_batting_position>> of a new manager
StateManager(batting_team, bowling_team, target) ==
    <<MatchState(batting_team, bowling_team, target), 1>>

(***************************************************************************)
(* Python dict keyed by name, kept in insertion order: a sequence of the   *)
(* stat records, each carrying its key in .name                            *)
(***************************************************************************)
InDict(d, k) == \E i \in 1..Len(d) : d[i].name = k
KeyIndex(d, k) == CHOOSE i \in 1..Len(d) : d[i].name = k
Get(d, k) == d[KeyIndex(d, k)]
Put(d, k, v) == IF InDict(d, k) THEN [d EXCEPT ![KeyIndex(d, k)] = v]
                ELSE Append(d, v)

\* f"{n}" of a non-negative int, as a sequence of characters
Digit(n) == <<"0", "1", "2", "3", "4", "5", "6", "7", "8", "9">>[n + 1]
RECURSIVE IntStr(_)
IntStr(n) == IF n < 10 THEN <<Digit(n)>> ELSE IntStr(n \div 10) \o <<Digit(n % 10)>>

\* MatchState.overs_display
overs_display(s) == IntStr(s.overs_completed) \o <<".">> \o IntStr(s.balls_in_current_over)

\* BowlerStats.overs_display and BowlerStats.figures_str
bowler_overs_display(bw) == IntStr(bw.balls_bowled \div 6) \o <<".">> \o IntStr(bw.balls_bowled % 6)
figures_str(bw) ==
    IntStr(bw.wickets) \o <<"/">> \o IntStr(bw.runs_conceded) \o <<" ", "(">>
        \o bowler_overs_display(bw) \o <<")">>


(***************************************************************************)
(* StateManager._detect_transitions: flags computed from the previous      *)
(* ball's actors, before the state is updated                              *)
(***************************************************************************)
\* mutant: only the striker is looked up in the batter map
_detect_transitions_striker_only(s, b) ==
    LET r == [s EXCEPT !.is_new_bowler = FALSE, !.is_new_over = FALSE,
                       !.is_strike_change = FALSE, !.is_new_batter = FALSE,
                       !.new_batter_name = None]
    IN  IF s.current_bowler = None THEN r
        ELSE
        LET nb  == b.bowler # s.current_bowler
            sc  == Truthy(s.current_batter) /\ b.batter # s.current_batter
            nw1 == ~InDict(s.batters, b.batter)
        IN  [r EXCEPT !.is_new_bowler = nb, !.is_new_over = nb,
                      !.is_strike_change = sc,
                      !.is_new_batter = nw1,
                      !.new_batter_name = IF nw1 THEN b.batter ELSE None]

\* mutant: the flags of the previous delivery are kept and added to
_detect_transitions_carried(s, b) ==
    IF s.current_bowler = None THEN s
    ELSE
    LET nb  == b.bowler # s.current_bowler
        sc  == Truthy(s.current_batter) /\ b.batter # s.current_batter
        nw1 == ~InDict(s.batters, b.batter)
        nw2 == Truthy(b.non_batter) /\ ~InDict(s.batters, b.non_batter)
    IN  [s EXCEPT !.is_new_bowler = @ \/ nb, !.is_new_over = @ \/ nb,
                  !.is_strike_change = @ \/ sc,
                  !.is_new_batter = @ \/ nw1 \/ nw2,
                  !.new_batter_name = IF nw2 THEN b.non_batter
                                      ELSE IF nw1 THEN b.batter ELSE @]

_detect_transitions(s, b) ==
    LET r == [s EXCEPT !.is_new_bowler = FALSE, !.is_new_over = FALSE,
                       !.is_strike_change = FALSE, !.is_new_batter = FALSE,
                       !.new_batter_name = None]
    IN  IF s.current_bowler = None THEN r
        ELSE
        LET nb  == b.bowler # s.current_bowler
            sc  == Truthy(s.current_batter) /\ b.batter # s.current_batter
            nw1 == ~InDict(s.batters, b.batter)
            nw2 == Truthy(b.non_batter) /\ ~InDict(s.batters, b.non_batter)
        IN  [r EXCEPT !.is_new_bowler = nb, !.is_new_over = nb,
                      !.is_strike_change = sc,
                      !.is_new_batter = nw1 \/ nw2,
                      !.new_batter_name = IF nw2 THEN b.non_batter
                                          ELSE IF nw1 THEN b.batter ELSE None]

(***************************************************************************)
(* StateManager.update, section by section                                 *)
(***************************************************************************)
total_ball_runs(b) == b.runs + b.extras

\* mutant: only a wide is taken as an illegal delivery
is_legal_noball_counted(b) == b.extras_type # "wide"

is_legal(b) == b.extras_type \notin {"wide", "noball"}

is_dot(b) == b.runs = 0 /\ b.extras = 0 /\ ~b.is_wicket

\* mutant: only wides and no-balls are added to total_extras
RunsAndExtras_byes_dropped(s, b) ==
    LET s1 == [s EXCEPT !.total_runs = @ + total_ball_runs(b)]
    IN  IF b.extras > 0 /\ b.extras_type \in {"wide", "noball"}
        THEN [s1 EXCEPT !.total_extras = @ + b.extras,
                        !.total_wides = IF b.extras_type = "wide" THEN @ + b.extras ELSE @,
                        !.total_noballs = IF b.extras_type = "noball" THEN @ + b.extras ELSE @]
        ELSE s1

\* --- Runs & extras, extras breakdown ---
RunsAndExtras(s, b) ==
    LET s1 == [s EXCEPT !.total_runs = @ + total_ball_runs(b)]
    IN  IF b.extras > 0
        THEN [s1 EXCEPT !.total_extras = @ + b.extras,
                        !.total_wides = IF b.extras_type = "wide" THEN @ + b.extras ELSE @,
                        !.total_noballs = IF b.extras_type = "noball" THEN @ + b.extras ELSE @]
        ELSE s1

\* --- Ball counting ---
BallCounting(s, b) ==
    IF is_legal(b)
    THEN [s EXCEPT !.balls_in_current_over = @ + 1, !.total_balls_bowled = @ + 1]
    ELSE s

\* --- Momentum tracking (last 6 legal deliveries) ---
MomentumTracking(s, b) ==
    IF is_legal(b)
    THEN LET w == Append(s.last_6_balls, b.runs)
         IN  [s EXCEPT !.last_6_balls = IF Len(w) > 6 THEN Tail(w) ELSE w]
    ELSE s

\* --- Consecutive dots ---
ConsecutiveDots(s, b) ==
    [s EXCEPT !.consecutive_dots = IF is_dot(b) THEN @ + 1 ELSE 0]

\* --- Current over stats ---
CurrentOverStats(s, b) ==
    [s EXCEPT !.current_over_runs = @ + total_ball_runs(b),
              !.current_over_wickets = IF b.is_wicket THEN @ + 1 ELSE @]

\* --- Boundary & drought tracking, balls since last wicket ---
BoundaryTracking(s, b) ==
    LET s1 == IF b.is_boundary \/ b.is_six
              THEN [s EXCEPT !.balls_since_last_boundary = 0,
                             !.total_fours = IF b.is_boundary THEN @ + 1 ELSE @,
                             !.total_sixes = IF b.is_six THEN @ + 1 ELSE @]
              ELSE IF is_legal(b)
              THEN [s EXCEPT !.balls_since_last_boundary = @ + 1]
              ELSE s
    IN  IF is_legal(b) THEN [s1 EXCEPT !.balls_since_last_wicket = @ + 1] ELSE s1

\* mutant: the record is added without the membership test
AddBatter_unchecked(sp, name) ==
    <<[sp[1] EXCEPT !.batters = Append(@, BatterStats(name, sp[2])),
                    !.batting_order = Append(@, name)],
      sp[2] + 1>>

\* --- Batter stats: the pair <<state, next batting position>> ---
AddBatter(sp, name) ==
    IF InDict(sp[1].batters, name) THEN sp
    ELSE <<[sp[1] EXCEPT !.batters = Append(@, BatterStats(name, sp[2])),
                         !.batting_order = Append(@, name)],
           sp[2] + 1>>

CreditBatter(bt, b) ==
    [bt EXCEPT !.balls_faced = IF is_legal(b) THEN @ + 1 ELSE @,
               !.dots = IF is_legal(b) /\ is_dot(b) THEN @ + 1 ELSE @,
               !.runs = @ + b.runs,
               !.fours = IF b.is_boundary THEN @ + 1 ELSE @,
               !.sixes = IF b.is_six THEN @ + 1 ELSE @]

BatterStatsUpdate(sp, b) ==
    LET sp1 == AddBatter(sp, b.batter)
        s2  == [sp1[1] EXCEPT !.batters =
                    Put(@, b.batter, CreditBatter(Get(@, b.batter), b))]
    IN  IF Truthy(b.non_batter) THEN AddBatter(<<s2, sp1[2]>>, b.non_batter)
        ELSE <<s2, sp1[2]>>

\* --- Bowler stats ---
\* mutant: a run-out is credited to the bowler like any other wicket
CreditBowler_run_out_credited(bw, b) ==
    [bw EXCEPT !.runs_conceded = @ + total_ball_runs(b),
               !.balls_bowled = IF is_legal(b) THEN @ + 1 ELSE @,
               !.dots = IF is_legal(b) /\ is_dot(b) THEN @ + 1 ELSE @,
               !.fours_conceded = IF b.is_boundary THEN @ + 1 ELSE @,
               !.sixes_conceded = IF b.is_six THEN @ + 1 ELSE @,
               !.wides = IF b.extras_type = "wide" THEN @ + b.extras ELSE @,
               !.noballs = IF b.extras_type = "noball" THEN @ + b.extras ELSE @,
               !.wickets = IF b.is_wicket THEN @ + 1 ELSE @]

CreditBowler(bw, b) ==
    [bw EXCEPT !.runs_conceded = @ + total_ball_runs(b),
               !.balls_bowled = IF is_legal(b) THEN @ + 1 ELSE @,
               !.dots = IF is_legal(b) /\ is_dot(b) THEN @ + 1 ELSE @,
               !.fours_conceded = IF b.is_boundary THEN @ + 1 ELSE @,
               !.sixes_conceded = IF b.is_six THEN @ + 1 ELSE @,
               !.wides = IF b.extras_type = "wide" THEN @ + b.extras ELSE @,
               !.noballs = IF b.extras_type = "noball" THEN @ + b.extras ELSE @,
               !.wickets = IF b.is_wicket /\ b.wicket_type # "run_out" THEN @ + 1 ELSE @]

BowlerStatsUpdate(s, b) ==
    LET d  == IF InDict(s.bowlers, b.bowler) THEN s.bowlers
              ELSE Append(s.bowlers, BowlerStats(b.bowler))
    IN  [s EXCEPT !.bowlers = Put(d, b.bowler, CreditBowler(Get(d, b.bowler), b))]

\* --- Partnership tracking ---
PartnershipTracking(s, b) ==
    [s EXCEPT !.partnership_balls = IF is_legal(b) THEN @ + 1 ELSE @,
              !.partnership_runs = @ + total_ball_runs(b)]

\* names of the not-out batters other than `excluded`, in dict order
ActiveBatters(s, excluded) ==
    LET act == SelectSeq(s.batters, LAMBDA bt : ~bt.is_out /\ bt.name # excluded)
    IN  [i \in 1..Len(act) |-> act[i].name]

\* mutant: the record is numbered from the log's length before the append
FallOfWicket_numbered_from_log(s, b, dismissed, partner) ==
    [wicket_number |-> Len(s.fall_of_wickets),
     batter |-> dismissed,
     batter_runs |-> IF InDict(s.batters, dismissed) THEN Get(s.batters, dismissed).runs ELSE 0,
     team_score |-> s.total_runs,
     overs |-> overs_display(s),
     bowler |-> b.bowler,
     how |-> b.wicket_type,
     partner |-> partner]

\* mutant: the score is taken as it stood before the wicket delivery
FallOfWicket_score_before_ball(s, b, dismissed, partner) ==
    [wicket_number |-> s.wickets,
     batter |-> dismissed,
     batter_runs |-> IF InDict(s.batters, dismissed) THEN Get(s.batters, dismissed).runs ELSE 0,
     team_score |-> s.total_runs - total_ball_runs(b),
     overs |-> overs_display(s),
     bowler |-> b.bowler,
     how |-> b.wicket_type,
     partner |-> partner]

FallOfWicket(s, b, dismissed, partner) ==
    [wicket_number |-> s.wickets,
     batter |-> dismissed,
     batter_runs |-> IF InDict(s.batters, dismissed) THEN Get(s.batters, dismissed).runs ELSE 0,
     team_score |-> s.total_runs,
     overs |-> overs_display(s),
     bowler |-> b.bowler,
     how |-> b.wicket_type,
     partner |-> partner]

\* mutant: the wicket resets the partnership runs but not its balls
Wickets_balls_kept(s, b) ==
    IF ~b.is_wicket THEN s
    ELSE
    LET dismissed == IF Truthy(b.dismissal_batter) THEN b.dismissal_batter ELSE b.batter
        s1 == [s EXCEPT !.wickets = @ + 1]
        s2 == IF InDict(s1.batters, dismissed)
              THEN [s1 EXCEPT !.batters =
                        Put(@, dismissed, [Get(@, dismissed) EXCEPT !.is_out = TRUE])]
              ELSE s1
        active  == ActiveBatters(s2, dismissed)
        partner == IF active # <<>> THEN active[1] ELSE None
    IN  [s2 EXCEPT !.fall_of_wickets = Append(@, FallOfWicket(s2, b, dismissed, partner)),
                   !.partnership_runs = 0,
                   !.partnership_number = @ + 1,
                   !.balls_since_last_wicket = 0]

\* --- Wickets ---
Wickets(s, b) ==
    IF ~b.is_wicket THEN s
    ELSE
    LET dismissed == IF Truthy(b.dismissal_batter) THEN b.dismissal_batter ELSE b.batter
        s1 == [s EXCEPT !.wickets = @ + 1]
        s2 == IF InDict(s1.batters, dismissed)
              THEN [s1 EXCEPT !.batters =
                        Put(@, dismissed, [Get(@, dismissed) EXCEPT !.is_out = TRUE])]
              ELSE s1
        active  == ActiveBatters(s2, dismissed)
        partner == IF active # <<>> THEN active[1] ELSE None
    IN  [s2 EXCEPT !.fall_of_wickets = Append(@, FallOfWicket(s2, b, dismissed, partner)),
                   !.partnership_runs = 0,
                   !.partnership_balls = 0,
                   !.partnership_number = @ + 1,
                   !.balls_since_last_wicket = 0]

\* mutant: the over is closed one ball late
OverTransition_late(s, b) ==
    IF s.balls_in_current_over > 6
    THEN [s EXCEPT !.over_runs_history = Append(@, s.current_over_runs),
                   !.overs_completed = @ + 1,
                   !.balls_in_current_over = 0,
                   !.current_over_runs = 0,
                   !.current_over_wickets = 0]
    ELSE s

\* --- Over transition ---
OverTransition(s, b) ==
    IF s.balls_in_current_over >= 6
    THEN LET bws == IF s.current_over_runs = 0 /\ InDict(s.bowlers, b.bowler)
                    THEN Put(s.bowlers, b.bowler,
                             [Get(s.bowlers, b.bowler) EXCEPT !.maidens = @ + 1])
                    ELSE s.bowlers
         IN  [s EXCEPT !.bowlers = bws,
                       !.over_runs_history = Append(@, s.current_over_runs),
                       !.previous_over_summary =
                           <<[over |-> s.overs_completed,
                             runs |-> s.current_over_runs,
                             wickets |-> s.current_over_wickets,
                             bowler |-> b.bowler,
                             figures |-> figures_str(Get(bws, b.bowler))]>>,
                       !.overs_completed = @ + 1,
                       !.balls_in_current_over = 0,
                       !.current_over_runs = 0,
                       !.current_over_wickets = 0]
    ELSE s

\* --- Update current batter/bowler/non-batter ---
CurrentActors(s, b) ==
    LET active == ActiveBatters(s, b.batter)
    IN  [s EXCEPT !.previous_batter = s.current_batter,
                  !.previous_bowler = s.current_bowler,
                  !.current_batter = b.batter,
                  !.current_bowler = b.bowler,
                  !.non_batter = IF Truthy(b.non_batter) THEN b.non_batter
                                 ELSE IF active # <<>> THEN active[1] ELSE None]

\* StateManager.update: <<state, next batting position>> after the ball
update(s, pos, b) ==
    LET s0 == _detect_transitions(s, b)
        s1 == RunsAndExtras(s0, b)
        s2 == BallCounting(s1, b)
        s3 == MomentumTracking(s2, b)
        s4 == ConsecutiveDots(s3, b)
        s5 == CurrentOverStats(s4, b)
        s6 == BoundaryTracking(s5, b)
        sp == BatterStatsUpdate(<<s6, pos>>, b)
        s7 == BowlerStatsUpdate(sp[1], b)
        s8 == PartnershipTracking(s7, b)
        s9 == Wickets(s8, b)
        s10 == OverTransition(s9, b)
    IN  <<CurrentActors(s10, b), sp[2]>>


(***************************************************************************)
(* models.py: computed properties of MatchState                            *)
(***************************************************************************)
\* total legal balls of the format (T20)
FormatBalls == 120

\* round(n / d) to the nearest integer, ties to the even neighbour
RoundDiv(n, d) ==
    LET q == n \div d
        r == n % d
    IN  IF 2 * r < d THEN q
        ELSE IF 2 * r > d THEN q + 1
        ELSE IF q % 2 = 0 THEN q ELSE q + 1

runs_needed(s) == Max(s.target - s.total_runs, 0)

balls_remaining(s) == Max(FormatBalls - s.total_balls_bowled, 0)

\* MatchState.crr, in hundredths of a run per over
crr(s) == IF s.total_balls_bowled = 0 THEN 0
          ELSE RoundDiv(600 * s.total_runs, s.total_balls_bowled)

\* MatchState.rrr, in hundredths of a run per over
rrr(s) == IF balls_remaining(s) <= 0 THEN 0
          ELSE RoundDiv(600 * runs_needed(s), balls_remaining(s))

match_phase(s) ==
    LET total_overs == s.overs_completed + (IF s.balls_in_current_over > 0 THEN 1 ELSE 0)
    IN  IF total_overs <= 6 THEN "powerplay"
        ELSE IF total_overs <= 15 THEN "middle"
        ELSE "death"

\* BatsmanStats.strike_rate, in hundredths
strike_rate(bt) == IF bt.balls_faced = 0 THEN 0 ELSE RoundDiv(10000 * bt.runs, bt.balls_faced)

\* BatsmanStats.dot_percentage, in tenths of a percent
dot_percentage(bt) == IF bt.balls_faced = 0 THEN 0 ELSE RoundDiv(1000 * bt.dots, bt.balls_faced)

approaching_fifty(bt) == 40 <= bt.runs /\ bt.runs < 50

approaching_hundred(bt) == 90 <= bt.runs /\ bt.runs < 100

\* BowlerStats.economy, in hundredths of a run per over
economy(bw) == IF bw.balls_bowled = 0 THEN 0 ELSE RoundDiv(600 * bw.runs_conceded, bw.balls_bowled)

\* q[-k:], the last k elements of a list
LastN(q, k) == IF Len(q) <= k THEN q ELSE SubSeq(q, Len(q) - k + 1, Len(q))

\* q[:k], the first k elements of a list
FirstN(q, k) == IF Len(q) <= k THEN q ELSE SubSeq(q, 1, k)

powerplay_runs(s) == SumSeq(FirstN(s.over_runs_history, 6))

\* MatchState.run_rate_last_3_overs, in hundredths
run_rate_last_3_overs(s) ==
    IF Len(s.over_runs_history) < 3 THEN 0
    ELSE RoundDiv(100 * SumSeq(LastN(s.over_runs_history, 3)), 3)

scoring_momentum(s) ==
    IF Len(s.over_runs_history) < 4 THEN "early"
    ELSE LET h == s.over_runs_history
             n == Len(h)
             \* diff = recent_2 - previous_2, each a sum halved: twice the diff
             diff2 == (h[n] + h[n - 1]) - (h[n - 2] + h[n - 3])
         IN  IF diff2 >= 6 THEN "accelerating"
             ELSE IF diff2 <= -6 THEN "decelerating"
             ELSE "steady"

RECURSIVE SumDots(_)
SumDots(d) ==
    IF d = <<>> THEN 0
    ELSE (IF ~Head(d).is_out \/ Head(d).dots > 0 THEN Head(d).dots ELSE 0) + SumDots(Tail(d))

\* MatchState.dot_ball_percentage, in tenths of a percent
dot_ball_percentage(s) ==
    IF s.total_balls_bowled = 0 THEN 0
    ELSE RoundDiv(1000 * SumDots(s.batters), s.total_balls_bowled)

\* MatchState.boundary_runs_percentage, in tenths of a percent
boundary_runs_percentage(s) ==
    IF s.total_runs = 0 THEN 0
    ELSE RoundDiv(1000 * (4 * s.total_fours + 6 * s.total_sixes), s.total_runs)

is_boundary_drought(s) == s.balls_since_last_boundary >= 18

\* int(text) of a sequence of digit characters
DigitValue(c) == CHOOSE n \in 0..9 : Digit(n) = c
RECURSIVE StrInt(_)
StrInt(q) == IF Len(q) = 1 THEN DigitValue(q[1])
             ELSE 10 * StrInt(SubSeq(q, 1, Len(q) - 1)) + DigitValue(q[Len(q)])

\* text.split("."), for a text with one dot
SplitDot(q) ==
    LET k == CHOOSE i \in 1..Len(q) : q[i] = "."
    IN  <<SubSeq(q, 1, k - 1), SubSeq(q, k + 1, Len(q))>>

_recent_wicket_cluster(s) ==
    IF Len(s.fall_of_wickets) < 3 THEN FALSE
    ELSE LET fow == s.fall_of_wickets[Len(s.fall_of_wickets) - 2]
             parts == SplitDot(fow.overs)
             fow_balls == StrInt(parts[1]) * 6 + StrInt(parts[2])
         IN  s.total_balls_bowled - fow_balls <= 18

is_collapse(s) ==
    IF Len(s.fall_of_wickets) < 3 THEN FALSE
    ELSE s.wickets >= 3 /\ _recent_wicket_cluster(s)

(***************************************************************************)
(* LogicEngine._classify_branch                                            *)
(***************************************************************************)
\* mutant: the kind of the delivery is not looked at
is_over_end_any_delivery(s, b) ==
    s.balls_in_current_over = 0 /\ s.overs_completed > 0

is_over_end(s, b) ==
    s.balls_in_current_over = 0 /\ s.overs_completed > 0 /\ is_legal(b)

\* the rules of the chain, in the order of the returns in the code
WicketRule(s, b) == b.is_wicket

\* mutant: the chase has to need fewer than 30
ExtraGiftRule_below_30(s, b) ==
    /\ b.extras > 0 /\ b.extras_type \in {"wide", "noball"}
    /\ (s.target > 0 /\ runs_needed(s) < 30) \/ match_phase(s) = "death"

ExtraGiftRule(s, b) ==
    /\ b.extras > 0 /\ b.extras_type \in {"wide", "noball"}
    /\ (s.target > 0 /\ runs_needed(s) <= 30) \/ match_phase(s) = "death"

BoundaryRule(s, b) == b.is_boundary \/ b.is_six

\* mutant: the dot rule waits for a fourth dot
PressureRule_fourth_dot(s, b) ==
    \/ s.consecutive_dots > 3
    \/ s.target > 0 /\ rrr(s) > 1200 /\ b.runs <= 1

PressureRule(s, b) ==
    \/ s.consecutive_dots >= 3
    \/ s.target > 0 /\ rrr(s) > 1200 /\ b.runs <= 1

\* mutant: the extras rule is tried before the wicket rule
_classify_branch_extras_first(s, b) ==
    IF ExtraGiftRule(s, b) THEN "extra_gift"
    ELSE IF WicketRule(s, b) THEN "wicket_drama"
    ELSE IF BoundaryRule(s, b) THEN "boundary_momentum"
    ELSE IF PressureRule(s, b) THEN "pressure_builder"
    ELSE IF is_over_end(s, b) THEN "over_transition"
    ELSE "routine"

_classify_branch(s, b) ==
    IF WicketRule(s, b) THEN "wicket_drama"
    ELSE IF ExtraGiftRule(s, b) THEN "extra_gift"
    ELSE IF BoundaryRule(s, b) THEN "boundary_momentum"
    ELSE IF PressureRule(s, b) THEN "pressure_builder"
    ELSE IF is_over_end(s, b) THEN "over_transition"
    ELSE "routine"

(***************************************************************************)
(* pivot_detector.py                                                       *)
(***************************************************************************)
\* mutant: the six rule asks for a required rate above 15
detect_pivot_six_above_15(s, b) ==
    LET dismissed == IF Truthy(b.dismissal_batter) THEN b.dismissal_batter ELSE b.batter
        n == Len(s.last_6_balls)
    IN  \/ b.is_six /\ rrr(s) > 1500
        \/ /\ b.is_boundary /\ match_phase(s) = "death"
           /\ 2 * runs_needed(s) > 3 * Max(balls_remaining(s), 1)
        \/ /\ b.is_wicket
           /\ \/ InDict(s.batters, dismissed) /\ Get(s.batters, dismissed).runs >= 30
              \/ s.wickets >= 7
        \/ /\ b.is_boundary \/ b.is_six
           /\ n >= 2
           /\ s.last_6_balls[n - 1] >= 4
        \/ b.extras > 0 /\ balls_remaining(s) <= 12 /\ runs_needed(s) <= 20

detect_pivot(s, b) ==
    LET dismissed == IF Truthy(b.dismissal_batter) THEN b.dismissal_batter ELSE b.batter
        n == Len(s.last_6_balls)
    IN  \/ b.is_six /\ rrr(s) > 1200
        \* runs_needed / max(balls_remaining, 1) > 1.5
        \/ /\ b.is_boundary /\ match_phase(s) = "death"
           /\ 2 * runs_needed(s) > 3 * Max(balls_remaining(s), 1)
        \/ /\ b.is_wicket
           /\ \/ InDict(s.batters, dismissed) /\ Get(s.batters, dismissed).runs >= 30
              \/ s.wickets >= 7
        \/ /\ b.is_boundary \/ b.is_six
           /\ n >= 2
           /\ s.last_6_balls[n - 1] >= 4
        \/ b.extras > 0 /\ balls_remaining(s) <= 12 /\ runs_needed(s) <= 20

\* 2^n
RECURSIVE Pow2(_)
Pow2(n) == IF n = 0 THEN 1 ELSE 2 * Pow2(n - 1)

\* 2^n modulo 25
RECURSIVE Pow2Mod25(_)
Pow2Mod25(n) == IF n = 0 THEN 1 ELSE (2 * Pow2Mod25(n - 1)) % 25

\* the binary exponent of the float m/100, m > 0: floor(log2(m / 100))
RECURSIVE Exponent(_)
Exponent(m) ==
    IF m >= 200 THEN Exponent(m \div 2) + 1
    ELSE IF m >= 100 THEN 0
    ELSE Exponent(2 * m) - 1

\* The float that holds the decimal m/100 (m > 0) is the multiple of 2^-s
\* nearest to it, s = 52 - Exponent(m).  m/100 * 2^s = m * 2^(s-2) / 25, so
\* the float is off by c/25 units of 2^-s, c decided by the residue modulo 25.
\* The result is <<c, s>>.
FloatError(m) ==
    LET s == 52 - Exponent(m)
        r == ((m % 25) * Pow2Mod25(s - 2)) % 25
    IN  <<IF r <= 12 THEN -r ELSE 25 - r, s>>

\* abs(a - b) < 0.5 on the floats that hold a100/100 and b100/100.  Only a
\* decimal difference of exactly 0.5 depends on the floats: the difference of
\* the two floats is 0.5 - k * 2^-sl, and is then rounded to a float.
FloatDiffBelowHalf(a100, b100) ==
    LET dd == IF a100 >= b100 THEN a100 - b100 ELSE b100 - a100
        hi == Max(a100, b100)
        lo == IF a100 >= b100 THEN b100 ELSE a100
    IN  IF dd # 50 THEN dd < 50
        ELSE IF lo = 0 THEN FALSE
        ELSE
        LET eh == FloatError(hi)
            el == FloatError(lo)
            k  == (el[1] - eh[1] * Pow2(el[2] - eh[2])) \div 25
        IN  IF k <= 0 THEN FALSE
            ELSE IF el[2] <= 54 THEN TRUE
            ELSE 2 * k > Pow2(el[2] - 54)

\* None is <<>>; "From X per over down to Y" is <<<<X, Y>>>> with X in tenths
\* and Y in hundredths of a run per over
calculate_equation_shift(s, b) ==
    IF total_ball_runs(b) <= 1 THEN <<>>
    ELSE
    LET balls_before == balls_remaining(s) + (IF is_legal(b) THEN 1 ELSE 0)
        runs_before  == runs_needed(s) + total_ball_runs(b)
    IN  IF balls_before <= 0 THEN <<>>
        ELSE
        LET rrr_before == RoundDiv(60 * runs_before, balls_before)
            rrr_after  == rrr(s)
        IN  IF FloatDiffBelowHalf(10 * rrr_before, rrr_after) THEN <<>>
            ELSE << <<rrr_before, rrr_after>> >>

(***************************************************************************)
(* LogicEngine._assess_match_situation: "" is <<>>, a label is the tuple   *)
(* of its name and the numbers formatted into it ({:.1f} in tenths)        *)
(***************************************************************************)
\* mutant: a target of 0 is taken as a chase
_assess_match_situation_unguarded(s) ==
    IF s.target < 0 THEN <<>>
    ELSE
    LET r       == rrr(s)
        r1      == RoundDiv(r, 10)
        wickets == s.wickets
        balls   == balls_remaining(s)
        needed  == runs_needed(s)
    IN  IF needed <= 0 THEN <<"MATCH WON">>
        ELSE IF wickets >= 10 THEN <<"ALL OUT">>
        ELSE IF wickets >= 8 /\ r > 1500 THEN <<"GAME OVER tail exposed", r1>>
        ELSE IF wickets >= 7 /\ r > 1800 THEN <<"GAME OVER wickets left", r1, 10 - wickets>>
        ELSE IF wickets >= 6 /\ r > 1500 THEN <<"DEEP TROUBLE", r1, wickets>>
        ELSE IF r > 2000 /\ balls <= 12 THEN <<"GAME OVER near-impossible", needed, balls>>
        ELSE IF r > 1500 /\ balls <= 18 THEN <<"LAST GASP", needed, balls, r1>>
        ELSE IF r > 1200 /\ wickets >= 5 THEN <<"UPHILL", r1, wickets>>
        ELSE IF r > 1200 /\ wickets < 5 THEN <<"TOUGH", r1>>
        ELSE IF 900 <= r /\ r <= 1200 /\ balls <= 30 THEN <<"TIGHT", needed, balls, r1>>
        ELSE IF r < 600 /\ wickets <= 4 THEN <<"COMFORTABLE", r1>>
        ELSE IF r < 800 /\ wickets <= 3 THEN <<"IN CONTROL", r1>>
        ELSE IF balls <= 6
             THEN IF needed <= 6 THEN <<"LAST OVER THRILLER", needed, balls>>
                  ELSE IF needed <= 12 THEN <<"LAST OVER need boundaries", needed, balls>>
                  ELSE <<"LAST OVER virtually impossible", needed, balls>>
        ELSE <<>>

_assess_match_situation(s) ==
    IF s.target <= 0 THEN <<>>
    ELSE
    LET r       == rrr(s)
        r1      == RoundDiv(r, 10)
        wickets == s.wickets
        balls   == balls_remaining(s)
        needed  == runs_needed(s)
    IN  IF needed <= 0 THEN <<"MATCH WON">>
        ELSE IF wickets >= 10 THEN <<"ALL OUT">>
        ELSE IF wickets >= 8 /\ r > 1500 THEN <<"GAME OVER tail exposed", r1>>
        ELSE IF wickets >= 7 /\ r > 1800 THEN <<"GAME OVER wickets left", r1, 10 - wickets>>
        ELSE IF wickets >= 6 /\ r > 1500 THEN <<"DEEP TROUBLE", r1, wickets>>
        ELSE IF r > 2000 /\ balls <= 12 THEN <<"GAME OVER near-impossible", needed, balls>>
        ELSE IF r > 1500 /\ balls <= 18 THEN <<"LAST GASP", needed, balls, r1>>
        ELSE IF r > 1200 /\ wickets >= 5 THEN <<"UPHILL", r1, wickets>>
        ELSE IF r > 1200 /\ wickets < 5 THEN <<"TOUGH", r1>>
        ELSE IF 900 <= r /\ r <= 1200 /\ balls <= 30 THEN <<"TIGHT", needed, balls, r1>>
        ELSE IF r < 600 /\ wickets <= 4 THEN <<"COMFORTABLE", r1>>
        ELSE IF r < 800 /\ wickets <= 3 THEN <<"IN CONTROL", r1>>
        ELSE IF balls <= 6
             THEN IF needed <= 6 THEN <<"LAST OVER THRILLER", needed, balls>>
                  ELSE IF needed <= 12 THEN <<"LAST OVER need boundaries", needed, balls>>
                  ELSE <<"LAST OVER virtually impossible", needed, balls>>
        ELSE <<>>

_ordinal(n) ==
    <<n, IF 11 <= n % 100 /\ n % 100 <= 13 THEN "th"
         ELSE IF n % 10 = 1 THEN "st"
         ELSE IF n % 10 = 2 THEN "nd"
         ELSE IF n % 10 = 3 THEN "rd"
         ELSE "th">>

_next_position(s) == Len(s.batting_order) + 1

(***************************************************************************)
(* LogicEngine._build_context: the notes, one tuple per fragment (its tag  *)
(* and the values formatted into it), in the order they are appended       *)
(***************************************************************************)
\* the fragment when c holds, nothing otherwise
When(c, fragment) == IF c THEN <<fragment>> ELSE <<>>

\* 1. transitions
TransitionNotes(s, b) ==
    (IF s.is_new_over /\ s.is_new_bowler
     THEN <<<<"NEW OVER", b.bowler>>>>
            \o When(s.previous_over_summary # <<>>, <<"Previous", s.previous_over_summary>>)
     ELSE When(s.is_new_bowler, <<"Bowling change", b.bowler, s.previous_bowler>>))
    \o
    (IF s.is_new_batter /\ Truthy(s.new_batter_name)
     THEN <<<<"NEW BATTER", s.new_batter_name,
              IF InDict(s.batters, s.new_batter_name)
              THEN Get(s.batters, s.new_batter_name).position
              ELSE _next_position(s)>>>>
     ELSE When(s.is_strike_change /\ ~s.is_new_over,
               <<"Strike rotated", b.batter, s.previous_batter>>))

\* 2. match situation
SituationNotes(s, b) ==
    <<<<"Phase", match_phase(s)>>>>
    \o When(s.balls_in_current_over > 0,
            <<"This over so far", s.current_over_runs, s.balls_in_current_over>>)
    \o When(_assess_match_situation(s) # <<>>,
            <<"MATCH SITUATION", _assess_match_situation(s)>>)

\* 3. batter
BatterNotes(s, b) ==
    (IF InDict(s.batters, b.batter)
     THEN LET bt == Get(s.batters, b.batter)
          IN  (IF bt.balls_faced = 0 THEN <<<<"yet to face", b.batter>>>>
               ELSE IF bt.runs = 0 /\ bt.balls_faced > 0
               THEN <<<<"struggling", b.batter, bt.balls_faced>>>>
               ELSE <<<<"form", b.batter, bt.runs, bt.balls_faced, strike_rate(bt),
                        IF bt.fours # 0 \/ bt.sixes # 0 THEN <<bt.fours, bt.sixes>> ELSE <<>>>>>>)
              \o When(bt.balls_faced >= 10 /\ dot_percentage(bt) >= 600,
                      <<"dot%", b.batter, dot_percentage(bt)>>)
              \o (IF approaching_fifty(bt) THEN <<<<"MILESTONE 50", b.batter, bt.runs>>>>
                  ELSE When(approaching_hundred(bt), <<"MILESTONE 100", b.batter, bt.runs>>))
     ELSE <<>>)
    \o
    (IF Truthy(b.non_batter) /\ InDict(s.batters, b.non_batter)
     THEN LET ns == Get(s.batters, b.non_batter)
          IN  When(~ns.is_out, <<"Non-batter", b.non_batter, ns.runs, ns.balls_faced>>)
     ELSE <<>>)

\* 4. bowler
BowlerNotes(s, b) ==
    IF InDict(s.bowlers, b.bowler)
    THEN LET bwl == Get(s.bowlers, b.bowler)
         IN  <<<<"Bowler", b.bowler, figures_str(bwl), economy(bwl),
                 IF bwl.dots >= 6 THEN <<bwl.dots>> ELSE <<>>,
                 IF bwl.fours_conceded + bwl.sixes_conceded >= 3
                 THEN <<bwl.fours_conceded, bwl.sixes_conceded>> ELSE <<>>,
                 IF bwl.wides + bwl.noballs >= 2 THEN <<bwl.wides, bwl.noballs>> ELSE <<>>>>>>
    ELSE <<>>

\* 5. partnership
PartnershipNotes(s, b) ==
    When(~b.is_wicket /\ s.partnership_balls > 0,
         <<"partnership", _ordinal(s.partnership_number), s.partnership_runs, s.partnership_balls>>)

\* 6. wicket context
FowTrail(s) ==
    LET last3 == LastN(s.fall_of_wickets, 3)
    IN  [i \in 1..Len(last3) |-> <<last3[i].wicket_number, last3[i].team_score, last3[i].overs>>]

WicketNotes(s, b) ==
    IF ~b.is_wicket THEN <<>>
    ELSE
    LET dismissed == IF Truthy(b.dismissal_batter) THEN b.dismissal_batter ELSE b.batter
    IN  (IF InDict(s.batters, dismissed)
         THEN LET bd == Get(s.batters, dismissed)
              IN  <<<<"out for", dismissed, bd.runs, bd.balls_faced, bd.fours, bd.sixes>>>>
                  \o When(bd.runs >= 30, <<"Set batter gone">>)
                  \o (IF s.wickets <= 3 THEN <<<<"Top-order wicket", s.wickets>>>>
                      ELSE When(s.wickets >= 7, <<"Tail exposed", 10 - s.wickets>>))
         ELSE <<>>)
        \o When(s.partnership_runs > 10,
                <<"stand broken", _ordinal(s.partnership_number), s.partnership_runs>>)
        \o When(is_collapse(s), <<"COLLAPSE">>)
        \o When(s.balls_since_last_wicket <= 6 /\ Len(s.fall_of_wickets) >= 2,
                <<"Back-to-back blow", s.balls_since_last_wicket>>)
        \o When(s.fall_of_wickets # <<>>, <<"FOW", FowTrail(s)>>)

\* 7. momentum and scoring patterns
MomentumNotes(s, b) ==
    IF b.is_wicket THEN <<>>
    ELSE
        When(Len(s.last_6_balls) >= 6, <<"Last 6 balls", SumSeq(s.last_6_balls), s.last_6_balls>>)
        \o When(s.consecutive_dots >= 3, <<"consecutive dots", s.consecutive_dots>>)
        \o (IF is_boundary_drought(s) THEN <<<<"BOUNDARY DROUGHT", s.balls_since_last_boundary>>>>
            ELSE When(s.balls_since_last_boundary >= 12,
                      <<"No boundary for", s.balls_since_last_boundary>>))
        \o When(scoring_momentum(s) \in {"accelerating", "decelerating"},
                <<"Scoring is", scoring_momentum(s)>>)
        \o When(run_rate_last_3_overs(s) > 0,
                <<"Last 3 overs", run_rate_last_3_overs(s), crr(s)>>)

\* 8. innings stats
InningsNotes(s, b) ==
    IF b.is_wicket THEN <<>>
    ELSE
        When(s.total_fours + s.total_sixes > 0 /\ (b.is_boundary \/ b.is_six),
             <<"Innings boundaries", s.total_fours, s.total_sixes,
               RoundDiv(boundary_runs_percentage(s), 10)>>)
        \o When(s.total_extras >= 5,
                <<"Extras so far", s.total_extras, s.total_wides, s.total_noballs>>)
        \o When(match_phase(s) # "powerplay" /\ dot_ball_percentage(s) >= 500,
                <<"Innings dot%", dot_ball_percentage(s)>>)
        \o When(match_phase(s) = "middle" /\ s.overs_completed = 6,
                <<"Powerplay finished", powerplay_runs(s)>>)

\* 9. equation
\* mutant: the reminder is suppressed on a wicket like groups 7 and 8
EquationNotes_not_on_wickets(s, b) ==
    When(~b.is_wicket /\ match_phase(s) = "death" /\ s.target > 0,
         <<"Need", runs_needed(s), balls_remaining(s), rrr(s)>>)

EquationNotes(s, b) ==
    When(match_phase(s) = "death" /\ s.target > 0,
         <<"Need", runs_needed(s), balls_remaining(s), rrr(s)>>)

_build_context(s, b, branch) ==
    TransitionNotes(s, b) \o SituationNotes(s, b) \o BatterNotes(s, b)
        \o BowlerNotes(s, b) \o PartnershipNotes(s, b) \o WicketNotes(s, b)
        \o MomentumNotes(s, b) \o InningsNotes(s, b) \o EquationNotes(s, b)

(***************************************************************************)
(* LogicEngine.analyze.  Python passes the MatchState by reference, so the *)
(* call is modelled by the state object after it together with the         *)
(* LogicResult; the code assigns to no field of the state.                 *)
(***************************************************************************)
LogicResult(s, b) ==
    [branch |-> _classify_branch(s, b),
     is_pivot |-> detect_pivot(s, b),
     equation_shift |-> calculate_equation_shift(s, b),
     context_notes |-> _build_context(s, b, _classify_branch(s, b))]

\* mutant: the rolling window is consumed while it is read
analyze_consumes_window(s, b) ==
    [state |-> [s EXCEPT !.last_6_balls = IF @ = <<>> THEN @ ELSE SubSeq(@, 1, Len(@) - 1)],
     result |-> <<LogicResult(s, b)>>]

analyze(s, b) == [state |-> s, result |-> <<LogicResult(s, b)>>]

(***************************************************************************)
(* The feed: deliveries as the ingestion produces them                     *)
(***************************************************************************)
NoDelivery == BallEvent(None, None, None, 0, 0, None, FALSE, None, None, FALSE, FALSE)

Dot      == BallEvent("A", "B", "X", 0, 0, None, FALSE, None, None, FALSE, FALSE)
Single   == BallEvent("B", "A", "X", 1, 0, None, FALSE, None, None, FALSE, FALSE)
Bowled   == BallEvent("A", "B", "X", 0, 0, None, TRUE, "bowled", None, FALSE, FALSE)
Four     == BallEvent("A", None, "Y", 4, 0, None, FALSE, None, None, TRUE, FALSE)
Six      == BallEvent("C", "A", "X", 6, 0, None, FALSE, None, None, TRUE, TRUE)
Wide     == BallEvent("A", "B", "X", 0, 1, "wide", FALSE, None, None, FALSE, FALSE)
NoBall4  == BallEvent("B", None, "X", 4, 1, "noball", FALSE, None, None, TRUE, FALSE)
LegBye   == BallEvent("A", "B", "Y", 0, 1, "legbye", FALSE, None, None, FALSE, FALSE)
RunOut   == BallEvent("A", "B", "Y", 1, 0, None, TRUE, "run_out", "B", FALSE, FALSE)
Stumped  == BallEvent("B", "", "X", 0, 1, "wide", TRUE, "stumped", None, FALSE, FALSE)
CaughtC  == BallEvent("A", None, "X", 0, 0, None, TRUE, "caught", "C", FALSE, FALSE)

BasicDeliveries == {Dot, Single, Bowled}
SpecialDeliveries == {Four, Six, Wide, NoBall4, LegBye, RunOut, Stumped, CaughtC}
WicketFeed == {Dot, Bowled, RunOut}

\* a six off a no-ball
NoBallSix == BallEvent("B", "A", "X", 6, 1, "noball", FALSE, None, None, TRUE, TRUE)

\* a dot ball faced by B
DotB == BallEvent("B", "A", "X", 0, 0, None, FALSE, None, None, FALSE, FALSE)

\* the non-striker is run out backing up; the row names no non-striker
RunOutBackingUp == BallEvent("A", None, "X", 0, 0, None, TRUE, "run_out", "B", FALSE, FALSE)

ChaseDeliveries ==
    {Dot, Single, Bowled, Four, Six, Wide, NoBall4, NoBallSix, LegBye, DotB, RunOutBackingUp}

(***************************************************************************)
(* The replay loop                                                         *)
(***************************************************************************)
NoResult == <<>>

\* a new StateManager for an innings with target t, before the first delivery
NewInnings(t) ==
    /\ n_fed = 0
    /\ special_fed = FALSE
    /\ replay = 1
    /\ recorded = <<>>
    /\ ball = NoDelivery
    /\ result = NoResult
    /\ state = StateManager("BAT", "BOWL", t)[1]
    /\ _next_batting_position = StateManager("BAT", "BOWL", t)[2]
    /\ previous_phase = "powerplay"
    /\ previous_overs_completed = 0
    /\ context = <<>>
    /\ ball_rows = <<>>
    /\ context_updates = <<>>
    /\ target_context = <<>>

Init == \E t \in Targets : NewInnings(t)

\* state = state_mgr.update(ball)
Feed(b, special) ==
    /\ state' = update(state, _next_batting_position, b)[1]
    /\ _next_batting_position' = update(state, _next_batting_position, b)[2]
    /\ ball' = b
    /\ result' = NoResult
    /\ n_fed' = n_fed + 1
    /\ special_fed' = (special_fed \/ special)
    /\ UNCHANGED <<replay, recorded>>
    /\ UNCHANGED <<previous_phase, previous_overs_completed, context>>
    /\ UNCHANGED <<ball_rows, context_updates, target_context>>

Update ==
    /\ n_fed < MaxBalls
    /\ \/ \E b \in BasicDeliveries : Feed(b, FALSE)
       \/ ~special_fed /\ \E b \in SpecialDeliveries : Feed(b, TRUE)

UpdateWickets ==
    /\ n_fed < MaxWicketBalls
    /\ \E b \in WicketFeed : Feed(b, FALSE)

\* logic_result = logic_engine.analyze(state, ball)
Analyze ==
    /\ n_fed > 0
    /\ state' = analyze(state, ball).state
    /\ result' = analyze(state, ball).result
    /\ UNCHANGED <<_next_batting_position, ball, n_fed, special_fed, replay, recorded>>
    /\ UNCHANGED <<previous_phase, previous_overs_completed, context>>
    /\ UNCHANGED <<ball_rows, context_updates, target_context>>

Next == Update \/ Analyze

Spec == Init /\ [][Next]_vars

\* a first innings fed wickets and dots only
InitWickets == NewInnings(0)

NextWickets == UpdateWickets \/ Analyze

SpecWickets == InitWickets /\ [][NextWickets]_vars

\* one iteration of the replay loop on delivery b: update, then analyze
LoopBody(b) ==
    LET up == update(state, _next_batting_position, b)
        an == analyze(up[1], b)
    IN  /\ state' = an.state
        /\ _next_batting_position' = up[2]
        /\ ball' = b
        /\ result' = an.result
        /\ n_fed' = n_fed + 1

\* first replay of a feed: every iteration's outcome is kept
RecordedStep ==
    /\ replay = 1
    /\ n_fed < MaxReplayBalls
    /\ \E b \in BasicDeliveries \cup SpecialDeliveries :
            /\ LoopBody(b)
            /\ recorded' = Append(recorded,
                    [ball |-> b, state |-> state', result |-> result',
                     position |-> _next_batting_position'])
    /\ UNCHANGED <<special_fed, replay>>
    /\ UNCHANGED <<previous_phase, previous_overs_completed, context>>
    /\ UNCHANGED <<ball_rows, context_updates, target_context>>

\* the feed is replayed from scratch: a new StateManager with the same
\* batting team, bowling team and target
Restart ==
    /\ replay = 1
    /\ n_fed > 0
    /\ state' = StateManager(state.batting_team, state.bowling_team, state.target)[1]
    /\ _next_batting_position' =
            StateManager(state.batting_team, state.bowling_team, state.target)[2]
    /\ ball' = NoDelivery
    /\ result' = NoResult
    /\ n_fed' = 0
    /\ replay' = 2
    /\ UNCHANGED <<special_fed, recorded>>
    /\ UNCHANGED <<previous_phase, previous_overs_completed, context>>
    /\ UNCHANGED <<ball_rows, context_updates, target_context>>

\* second replay: the same deliveries in the same order
ReplayedStep ==
    /\ replay = 2
    /\ n_fed < Len(recorded)
    /\ LoopBody(recorded[n_fed + 1].ball)
    /\ UNCHANGED <<special_fed, replay, recorded>>
    /\ UNCHANGED <<previous_phase, previous_overs_completed, context>>
    /\ UNCHANGED <<ball_rows, context_updates, target_context>>

NextReplay == RecordedStep \/ Restart \/ ReplayedStep

SpecReplay == Init /\ [][NextReplay]_vars

\* An innings that is followed to its last over: the feed opens with singles,
\* and after ChasePrefixes of them deliveries of every kind are fed.  Target 0
\* is a first innings, the other targets are chases.
ChasePrefixes == {0, 35, 49, 79, 114, 118}
ChaseTargets == {0, 31, 32, 93, 95, 119, 121, 135, LargeTarget}

InitChase == \E t \in ChaseTargets : NewInnings(t)

\* one more single of the opening of the feed
OpeningSingle ==
    /\ ~special_fed
    /\ \E k \in ChasePrefixes : n_fed < k
    /\ Feed(Single, FALSE)

UpdateChase ==
    /\ \E k \in ChasePrefixes :
            /\ k <= n_fed /\ n_fed < k + MaxChaseBalls
            /\ special_fed \/ n_fed = k
    /\ \E b \in ChaseDeliveries : Feed(b, TRUE)

NextChase == OpeningSingle \/ UpdateChase \/ Analyze

SpecChase == InitChase /\ [][NextChase]_vars

\* A first innings of dots and wickets, long enough for three wickets to lie
\* more than three overs apart.
UpdateCollapse ==
    /\ n_fed < MaxCollapseBalls
    /\ \E b \in {Dot, Bowled} :
            /\ b.is_wicket => state.wickets < MaxCollapseWickets
            /\ Feed(b, FALSE)

NextCollapse == UpdateCollapse \/ Analyze

SpecCollapse == InitWickets /\ [][NextCollapse]_vars

(***************************************************************************)
(* precompute: the innings replay of precompute_match_context and of       *)
(* precompute_ball_context, with the narrative triggers of each delivery   *)
(***************************************************************************)
\* BatsmanStats.just_reached_fifty and just_reached_hundred
just_reached_fifty(bt) ==
    bt.runs >= 50 /\ bt.runs - Max(Max(bt.fours * 4, bt.sixes * 6), 1) < 50

just_reached_hundred(bt) ==
    bt.runs >= 100 /\ bt.runs - Max(Max(bt.fours * 4, bt.sixes * 6), 1) < 100

\* MatchState.middle_overs_runs: sum(over_runs_history[6:15])
middle_overs_runs(s) ==
    LET h == s.over_runs_history
    IN  IF Len(h) <= 6 THEN 0 ELSE SumSeq(SubSeq(h, 7, IF Len(h) < 15 THEN Len(h) ELSE 15))

\* innings 1 is replayed with target 0, innings 2 with the target of the match
innings_num(s) == IF s.target > 0 THEN 2 ELSE 1

\* match_info["first_innings"], handed to the triggers of innings 2 only
first_innings(s) ==
    IF innings_num(s) = 2
    THEN <<[batting_team |-> s.bowling_team, total_runs |-> s.target - 1, total_wickets |-> 10]>>
    ELSE <<>>

\* mutant: a first innings is over only when ten wickets are down
match_over_wickets_only(s) ==
    IF innings_num(s) = 2
    THEN runs_needed(s) <= 0 \/ s.wickets >= 10 \/ balls_remaining(s) <= 0
    ELSE s.wickets >= 10

\* the innings-over conditions of the replay loop
match_over(s) ==
    IF innings_num(s) = 2
    THEN runs_needed(s) <= 0 \/ s.wickets >= 10 \/ balls_remaining(s) <= 0
    ELSE s.wickets >= 10 \/ s.total_balls_bowled >= 120

\* _serialize_tracking
_serialize_tracking(s) ==
    [over_runs_history |-> s.over_runs_history,
     last_6_balls |-> s.last_6_balls,
     consecutive_dots |-> s.consecutive_dots,
     balls_since_last_boundary |-> s.balls_since_last_boundary,
     balls_since_last_wicket |-> s.balls_since_last_wicket,
     previous_over_summary |-> s.previous_over_summary,
     partnership_runs |-> s.partnership_runs,
     partnership_balls |-> s.partnership_balls,
     partnership_number |-> s.partnership_number,
     current_batter |-> s.current_batter,
     current_bowler |-> s.current_bowler,
     non_batter |-> s.non_batter,
     batting_order |-> s.batting_order,
     is_new_bowler |-> s.is_new_bowler,
     is_new_over |-> s.is_new_over,
     is_strike_change |-> s.is_strike_change,
     is_new_batter |-> s.is_new_batter,
     new_batter_name |-> s.new_batter_name,
     current_over_runs |-> s.current_over_runs,
     current_over_wickets |-> s.current_over_wickets,
     total_extras |-> s.total_extras,
     total_wides |-> s.total_wides,
     total_noballs |-> s.total_noballs,
     total_fours |-> s.total_fours,
     total_sixes |-> s.total_sixes,
     batter_stats |->
        IF Truthy(s.current_batter) /\ InDict(s.batters, s.current_batter)
        THEN LET bt == Get(s.batters, s.current_batter)
             IN  <<[runs |-> bt.runs, balls |-> bt.balls_faced, fours |-> bt.fours,
                    sixes |-> bt.sixes, sr |-> strike_rate(bt)]>>
        ELSE <<>>,
     non_batter_stats |->
        IF Truthy(s.non_batter) /\ InDict(s.batters, s.non_batter)
        THEN LET bt == Get(s.batters, s.non_batter)
             IN  <<[runs |-> bt.runs, balls |-> bt.balls_faced, fours |-> bt.fours,
                    sixes |-> bt.sixes, sr |-> strike_rate(bt)]>>
        ELSE <<>>,
     bowler_stats |->
        IF Truthy(s.current_bowler) /\ InDict(s.bowlers, s.current_bowler)
        THEN LET bw == Get(s.bowlers, s.current_bowler)
             IN  <<[wickets |-> bw.wickets, runs |-> bw.runs_conceded,
                    overs |-> RoundDiv(10 * bw.balls_bowled, 6), economy |-> economy(bw)]>>
        ELSE <<>>]

\* _detect_narratives, the milestone trigger
MilestoneTrigger(s, b, over) ==
    IF ~over /\ InDict(s.batters, b.batter)
    THEN LET batter == Get(s.batters, b.batter)
             milestone_type ==
                IF just_reached_fifty(batter) /\ batter.runs < 100 THEN "FIFTY"
                ELSE IF just_reached_hundred(batter) THEN "HUNDRED"
                ELSE None
         IN  When(milestone_type # None,
                  [type |-> "milestone", branch |-> "boundary_momentum",
                   milestone_type |-> milestone_type, batter_name |-> b.batter,
                   batter_runs |-> batter.runs, batter_balls |-> batter.balls_faced,
                   batter_fours |-> batter.fours, batter_sixes |-> batter.sixes,
                   batter_sr |-> strike_rate(batter),
                   situation |-> <<runs_needed(s), balls_remaining(s)>>])
    ELSE <<>>

\* _detect_narratives, the new-batter trigger
NewBatterTrigger(s, b, over) ==
    When(~over /\ b.is_wicket /\ s.wickets < 10,
         [type |-> "new_batter", branch |-> "wicket_drama",
          new_batter |-> "", position |-> s.wickets + 1,
          partnership_broken |->
             IF s.fall_of_wickets = <<>> THEN <<>>
             ELSE LET last_fow == s.fall_of_wickets[Len(s.fall_of_wickets)]
                  IN  <<IF Truthy(b.dismissal_batter) THEN b.dismissal_batter ELSE b.batter,
                        last_fow.batter_runs, last_fow.team_score, last_fow.wicket_number>>,
          situation |-> <<runs_needed(s), balls_remaining(s), is_collapse(s)>>])

\* f.overs.startswith(f"{n}.")
StartsWithOver(overs, n) ==
    LET prefix == IntStr(n) \o <<".">>
    IN  Len(overs) >= Len(prefix) /\ SubSeq(overs, 1, Len(prefix)) = prefix

\* _detect_narratives, the end-of-over and phase-change triggers
OverTrigger(s, b, over, prev_phase, prev_overs_completed) ==
    IF ~over /\ s.overs_completed > prev_overs_completed
    THEN IF match_phase(s) # prev_phase
         THEN <<[type |-> "phase_change", branch |-> "over_transition",
                 new_phase |-> match_phase(s),
                 phase_summary |->
                    IF prev_phase = "powerplay"
                    THEN <<"Powerplay done", powerplay_runs(s), s.wickets>>
                    ELSE IF prev_phase = "middle"
                    THEN <<"Middle overs done", middle_overs_runs(s)>>
                    ELSE <<>>]>>
         ELSE <<[type |-> "end_of_over", branch |-> "over_transition",
                 over_runs |-> IF s.over_runs_history = <<>> THEN 0
                               ELSE s.over_runs_history[Len(s.over_runs_history)],
                 over_wickets |->
                    Cardinality({i \in 1..Len(s.fall_of_wickets) :
                        StartsWithOver(s.fall_of_wickets[i].overs, s.overs_completed - 1)}),
                 bowler |-> b.bowler,
                 bowler_figures |-> IF InDict(s.bowlers, b.bowler)
                                    THEN figures_str(Get(s.bowlers, b.bowler)) ELSE <<>>,
                 phase_info |-> match_phase(s)]>>
    ELSE <<>>

\* max(d.values(), key=...): the first record with the largest value
TopBatter(d) ==
    d[CHOOSE i \in 1..Len(d) :
        \A j \in 1..Len(d) : d[j].runs <= d[i].runs /\ (j < i => d[j].runs < d[i].runs)]

TopBowler(d) ==
    d[CHOOSE i \in 1..Len(d) :
        \A j \in 1..Len(d) : d[j].wickets <= d[i].wickets /\ (j < i => d[j].wickets < d[i].wickets)]

\* the result text: who wins, by what margin
result_text(s) ==
    IF runs_needed(s) <= 0
    THEN <<s.batting_team, "WIN by", 10 - s.wickets, "wicket(s)", s.target, balls_remaining(s)>>
    ELSE IF s.wickets >= 10
    THEN <<s.bowling_team, "WIN by", runs_needed(s), "runs", "all out for", s.total_runs>>
    ELSE <<s.bowling_team, "WIN by", runs_needed(s), "runs", "could only manage",
           s.total_runs, s.wickets, overs_display(s)>>

\* _detect_narratives, the match-result trigger
ResultTrigger(s, over, fi) ==
    When(over,
         [type |-> "second_innings_end", branch |-> "wicket_drama",
          result_text |-> result_text(s),
          match_highlights |->
             (IF s.batters # <<>> /\ TopBatter(s.batters).runs >= 15
              THEN <<<<"Top scorer", TopBatter(s.batters).name, TopBatter(s.batters).runs,
                       TopBatter(s.batters).balls_faced>>>>
              ELSE <<>>)
             \o (IF s.bowlers # <<>> /\ TopBowler(s.bowlers).wickets > 0
                 THEN <<<<"Best bowler", TopBowler(s.bowlers).name,
                          figures_str(TopBowler(s.bowlers))>>>>
                 ELSE <<>>)
             \o (IF fi # <<>>
                 THEN <<<<"First innings", fi[1].batting_team, fi[1].total_runs,
                          fi[1].total_wickets>>>>
                 ELSE <<>>)])

_detect_narratives(s, b, over, prev_phase, prev_overs_completed, fi) ==
    MilestoneTrigger(s, b, over) \o NewBatterTrigger(s, b, over)
        \o OverTrigger(s, b, over, prev_phase, prev_overs_completed)
        \o ResultTrigger(s, over, fi)

\* One iteration of the replay loop on delivery b, from the loop's locals
\* ls: update, analyze, the innings-over test, the triggers, the phase and
\* over bookkeeping, and the context that is stored for the delivery.
IterationResult(ls, b, up, an) ==
    LET s == an.state
        over == match_over(s)
        narrs == _detect_narratives(s, b, over, ls.previous_phase,
                                    ls.previous_overs_completed, first_innings(s))
        advanced == s.overs_completed > ls.previous_overs_completed
    IN  [state |-> s,
         position |-> up[2],
         previous_phase |-> IF advanced /\ match_phase(s) # ls.previous_phase
                            THEN match_phase(s) ELSE ls.previous_phase,
         previous_overs_completed |-> IF advanced THEN s.overs_completed
                                      ELSE ls.previous_overs_completed,
         context |-> [logic |-> an.result[1], match_over |-> over,
                      narratives |-> narrs, tracking |-> _serialize_tracking(s)]]

\* state_mgr.update(ball), then logic_engine.analyze(state, ball), then the
\* rest of the loop body on their results
Iteration(ls, b) ==
    CHOOSE it \in {IterationResult(ls, b, r[1], r[2]) :
                      r \in {<<up, analyze(up[1], b)>> :
                                up \in {update(ls.state, ls.position, b)}}} : TRUE

\* the loop's locals before the first delivery of an innings with target t
LoopStart(t) ==
    [state |-> StateManager("BAT", "BOWL", t)[1],
     position |-> StateManager("BAT", "BOWL", t)[2],
     previous_phase |-> "powerplay",
     previous_overs_completed |-> 0]

\* the contexts the loop produces for balls[i..], up to the delivery that
\* ends the innings
RECURSIVE ReplayContexts(_, _, _)
ReplayContexts(ls, balls, i) ==
    IF i > Len(balls) THEN <<>>
    ELSE CHOOSE contexts \in
            {<<it.context>> \o
             (IF it.context.match_over THEN <<>>
              ELSE ReplayContexts([state |-> it.state, position |-> it.position,
                                   previous_phase |-> it.previous_phase,
                                   previous_overs_completed |-> it.previous_overs_completed],
                                  balls, i + 1)) :
             it \in {Iteration(ls, balls[i])}} : TRUE

\* the batter of the first of balls[j..] whose batter is in `names` (inside)
\* or is not in it; None when there is no such ball
NextBatter(balls, j, names, inside) ==
    LET js == {k \in j..Len(balls) : (balls[k].batter \in names) = inside}
    IN  IF js = {} THEN None
        ELSE balls[CHOOSE k \in js : \A m \in js : k <= m].batter

\* _resolve_non_batters, the pass over the balls from index i with the
\* batters at the crease in `active`.  The rows fed here have two striker
\* names, so the list `others` never holds more than one name.
RECURSIVE ResolveFrom(_, _, _)
ResolveFrom(balls, active, i) ==
    IF i > Len(balls) THEN balls
    ELSE LET b == balls[i]
             act1 == active \cup {b.batter}
             others == act1 \ {b.batter}
             b1 == IF Cardinality(act1) >= 2
                   THEN [b EXCEPT !.non_batter = CHOOSE o \in others : TRUE]
                   ELSE b
         IN  IF ~b.is_wicket THEN ResolveFrom([balls EXCEPT ![i] = b1], act1, i + 1)
             ELSE LET survivor == NextBatter(balls, i + 1, act1, TRUE)
                      dismissed ==
                         IF Truthy(b.dismissal_batter) THEN b.dismissal_batter
                         ELSE IF survivor # None /\ Cardinality(act1) = 2
                         THEN CHOOSE o \in act1 \ {survivor} : TRUE
                         ELSE b.batter
                      act2 == act1 \ {dismissed}
                      replacement == NextBatter(balls, i + 1, act2, FALSE)
                  IN  ResolveFrom([balls EXCEPT ![i] = [b1 EXCEPT !.dismissal_batter = dismissed]],
                                  IF replacement = None THEN act2 ELSE act2 \cup {replacement},
                                  i + 1)

_resolve_non_batters(balls) ==
    IF balls = <<>> THEN balls
    ELSE LET first == {balls[1].batter}
             second == NextBatter(balls, 2, first, FALSE)
         IN  ResolveFrom(balls, IF second = None THEN first ELSE first \cup {second}, 1)

\* precompute_match_context, one innings: the contexts stored for its rows
precompute_match_context(rows, t) ==
    CHOOSE context_updates_ \in
        {ReplayContexts(ls, ball_events, 1) :
            ls \in {LoopStart(t)}, ball_events \in {_resolve_non_batters(rows)}} : TRUE

\* precompute_ball_context for the k-th row: the context it stores, or None
\* when the replay stops before that row
precompute_ball_context(rows, t, k) ==
    CHOOSE target_context_ \in
        {IF k <= Len(contexts) THEN <<contexts[k]>> ELSE <<>> :
            contexts \in {ReplayContexts(ls, rows, 1) : ls \in {LoopStart(t)}}} : TRUE

\* The replay loop of precompute_match_context, one iteration per step, on the
\* events of an innings after the pre-pass: the feed opens with singles or
\* with wickets, and then deliveries of many kinds are fed.
InningsPrefixes == {0, 35, 49, 89, 99, 118}
InningsTargets == {0, SmallTarget, 119, 121, LargeTarget}
InningsDeliveries == {Dot, Single, Bowled, Six, Wide, LegBye, RunOut, NoBallSix, DotB}

InitInnings == \E t \in InningsTargets : NewInnings(t)

\* for br, ball in zip(ball_rows, ball_events): the body of the loop
ContextStep(b) ==
    \E it \in {Iteration([state |-> state, position |-> _next_batting_position,
                          previous_phase |-> previous_phase,
                          previous_overs_completed |-> previous_overs_completed], b)} :
        /\ state' = it.state
        /\ _next_batting_position' = it.position
        /\ ball' = b
        /\ result' = <<it.context.logic>>
        /\ n_fed' = n_fed + 1
        /\ previous_phase' = it.previous_phase
        /\ previous_overs_completed' = it.previous_overs_completed
        /\ context' = <<it.context>>
        /\ UNCHANGED <<replay, recorded, ball_rows, context_updates, target_context>>

\* if match_over: break
LoopRuns == IF context = <<>> THEN TRUE ELSE ~context[1].match_over

OpeningRun ==
    /\ LoopRuns
    /\ ~special_fed /\ state.wickets = 0
    /\ \E k \in InningsPrefixes : n_fed < k
    /\ ContextStep(Single)
    /\ UNCHANGED special_fed

OpeningWicket ==
    /\ LoopRuns
    /\ ~special_fed /\ state.wickets = n_fed
    /\ n_fed < WicketPrefix
    /\ ContextStep(Bowled)
    /\ UNCHANGED special_fed

InningsStep ==
    /\ LoopRuns
    /\ \E k \in InningsPrefixes \cup {WicketPrefix} :
            /\ k <= n_fed /\ n_fed < k + MaxInningsBalls
            /\ special_fed \/ n_fed = k
    /\ \E b \in InningsDeliveries : ContextStep(b)
    /\ special_fed' = TRUE

NextInnings == OpeningRun \/ OpeningWicket \/ InningsStep

SpecInnings == InitInnings /\ [][NextInnings]_vars

\* The two precompute functions run on the same stored rows of an innings,
\* some of them without non_batter or dismissal_batter.
RowFeed == {Four, NoBall4, Single, Dot, Bowled, RunOut}

InitRows == \E t \in {0, SmallTarget} : NewInnings(t)

\* a delivery row is stored
AddRow ==
    /\ Len(ball_rows) < MaxRows
    /\ context_updates = <<>> /\ target_context = <<>>
    /\ \E b \in RowFeed : ball_rows' = Append(ball_rows, b)
    /\ UNCHANGED <<state, _next_batting_position, ball, result, n_fed, special_fed>>
    /\ UNCHANGED <<replay, recorded, previous_phase, previous_overs_completed, context>>
    /\ UNCHANGED <<context_updates, target_context>>

PrecomputeMatch ==
    /\ ball_rows # <<>>
    /\ context_updates = <<>>
    /\ context_updates' = <<precompute_match_context(ball_rows, state.target)>>
    /\ UNCHANGED <<state, _next_batting_position, ball, result, n_fed, special_fed>>
    /\ UNCHANGED <<replay, recorded, previous_phase, previous_overs_completed, context>>
    /\ UNCHANGED <<ball_rows, target_context>>

PrecomputeBall ==
    /\ ball_rows # <<>>
    /\ target_context = <<>>
    /\ \E k \in 1..Len(ball_rows) :
            target_context' =
                <<[ball_id |-> k,
                   context |-> precompute_ball_context(ball_rows, state.target, k)]>>
    /\ UNCHANGED <<state, _next_batting_position, ball, result, n_fed, special_fed>>
    /\ UNCHANGED <<replay, recorded, previous_phase, previous_overs_completed, context>>
    /\ UNCHANGED <<ball_rows, context_updates>>

NextRows == AddRow \/ PrecomputeMatch \/ PrecomputeBall

SpecRows == InitRows /\ [][NextRows]_vars

\* the step of the loop that consumed the delivery now in `ball`
IsUpdateStep == n_fed' = n_fed + 1

\* analyze has run on the delivery now in `ball`
Analyzed == result # NoResult

\* a legal delivery, in the words of the glossary: not a wide or a no-ball
Legal(b) == b.extras_type # "wide" /\ b.extras_type # "noball"

(***************************************************************************)
(* Properties                                                              *)
(***************************************************************************)
RECURSIVE SumBatterRuns(_)
SumBatterRuns(d) == IF d = <<>> THEN 0 ELSE Head(d).runs + SumBatterRuns(Tail(d))

\* C1: after any sequence of updates, the runs of all batter records plus
\* total_extras add up to total_runs.
C1_RunsReconcile ==
    SumBatterRuns(state.batters) + state.total_extras = state.total_runs

C1_Witness ==
    /\ state.total_extras > 0
    /\ SumBatterRuns(state.batters) > 0
    /\ state.wickets > 0
    /\ ball.extras_type = "legbye"

\* C2: the fall-of-wickets log has one record per wicket, numbered 1..wickets
\* in order; a wicket delivery appends exactly one record and no other
\* delivery appends or changes one.
C2_LogShape ==
    /\ Len(state.fall_of_wickets) = state.wickets
    /\ \A i \in 1..Len(state.fall_of_wickets) : state.fall_of_wickets[i].wicket_number = i

C2_LogStep ==
    IsUpdateStep =>
        IF ball'.is_wicket
        THEN /\ Len(state'.fall_of_wickets) = Len(state.fall_of_wickets) + 1
             /\ SubSeq(state'.fall_of_wickets, 1, Len(state.fall_of_wickets)) = state.fall_of_wickets
        ELSE state'.fall_of_wickets = state.fall_of_wickets

C2_FallOfWicketsLog == []C2_LogShape /\ [][C2_LogStep]_vars

C2_Witness ==
    /\ state.wickets >= 3
    /\ ball.is_wicket
    /\ \E i \in 1..Len(state.fall_of_wickets) : state.fall_of_wickets[i].how = "run_out"

\* C3: balls_in_current_over stays in 0..5; it returns to 0 and overs_completed
\* grows by exactly 1 on every 6th legal delivery and on no other delivery; a
\* wide or no-ball never completes an over.
C3_OverShape ==
    /\ state.balls_in_current_over \in 0..5
    /\ state.total_balls_bowled = 6 * state.overs_completed + state.balls_in_current_over

C3_OverStep ==
    IsUpdateStep =>
        IF Legal(ball') /\ state.balls_in_current_over = 5
        THEN /\ state'.balls_in_current_over = 0
             /\ state'.overs_completed = state.overs_completed + 1
        ELSE /\ state'.overs_completed = state.overs_completed
             /\ state'.balls_in_current_over =
                    state.balls_in_current_over + (IF Legal(ball') THEN 1 ELSE 0)

C3_OverCounting == []C3_OverShape /\ [][C3_OverStep]_vars

C3_Witness ==
    /\ state.overs_completed = 1
    /\ state.balls_in_current_over = 0
    /\ state.total_extras > 0
    /\ Legal(ball)

\* C4: a wide or no-ball leaves total_balls_bowled and balls_in_current_over
\* unchanged and adds its runs plus extras to total_runs and its extras to
\* total_extras and to the matching wide / no-ball counter.
C4_IllegalStep ==
    IsUpdateStep /\ ball'.extras_type \in {"wide", "noball"} =>
        /\ state'.total_balls_bowled = state.total_balls_bowled
        /\ state'.balls_in_current_over = state.balls_in_current_over
        /\ state'.total_runs = state.total_runs + ball'.runs + ball'.extras
        /\ state'.total_extras = state.total_extras + ball'.extras
        /\ state'.total_wides = state.total_wides
                + (IF ball'.extras_type = "wide" THEN ball'.extras ELSE 0)
        /\ state'.total_noballs = state.total_noballs
                + (IF ball'.extras_type = "noball" THEN ball'.extras ELSE 0)

C4_WideNoBallFrame == [][C4_IllegalStep]_vars

C4_Witness ==
    /\ ball = NoBall4
    /\ state.total_noballs = 1
    /\ state.balls_in_current_over = 3
    /\ state.total_runs = 6

C6_PartnershipShape == state.partnership_number = state.wickets + 1

C6_PartnershipStep ==
    IsUpdateStep =>
        IF ball'.is_wicket
        THEN /\ state'.partnership_runs = 0
             /\ state'.partnership_balls = 0
             /\ state'.partnership_number = state.partnership_number + 1
        ELSE /\ state'.partnership_number = state.partnership_number
             /\ state'.partnership_runs = state.partnership_runs + ball'.runs + ball'.extras
             /\ state'.partnership_balls =
                    state.partnership_balls + (IF Legal(ball') THEN 1 ELSE 0)

C6_PartnershipReset == []C6_PartnershipShape /\ [][C6_PartnershipStep]_vars

C6_Witness ==
    /\ ball.is_wicket
    /\ state.partnership_number = 3
    /\ state.total_runs > 0
    /\ state.total_wides > 0

\* C7: a batter's first appearance as striker or non-striker assigns a batting
\* position exactly once: batting_order has no duplicates, the batter at index
\* i (from 0) of batting_order has position i + 1, and a position once assigned
\* never changes.
C7_OrderShape ==
    /\ \A i, j \in 1..Len(state.batting_order) :
            state.batting_order[i] = state.batting_order[j] => i = j
    /\ \A i \in 1..Len(state.batting_order) :
            /\ InDict(state.batters, state.batting_order[i])
            /\ Get(state.batters, state.batting_order[i]).position = i
    /\ Len(state.batters) = Len(state.batting_order)
    /\ n_fed > 0 =>
            /\ InDict(state.batters, ball.batter)
            /\ Truthy(ball.non_batter) => InDict(state.batters, ball.non_batter)

C7_OrderStep ==
    /\ Len(state'.batting_order) >= Len(state.batting_order)
    /\ SubSeq(state'.batting_order, 1, Len(state.batting_order)) = state.batting_order
    /\ \A i \in 1..Len(state.batters) :
            /\ state'.batters[i].name = state.batters[i].name
            /\ state'.batters[i].position = state.batters[i].position

C7_BattingOrder == []C7_OrderShape /\ [][C7_OrderStep]_vars

C7_Witness ==
    /\ state.batting_order = <<"A", "B", "C">>
    /\ Get(state.batters, "C").position = 3
    /\ ball.batter = "A"
    /\ n_fed >= 4

C9_AnalyzeStep ==
    n_fed' = n_fed =>
        /\ state' = state
        /\ Analyzed => result' = result

C10_FirstMatch ==
    Analyzed =>
        LET br == result[1].branch
            w  == ball.is_wicket
            e  == /\ ball.extras > 0 /\ ball.extras_type \in {"wide", "noball"}
                  /\ \/ state.target > 0 /\ runs_needed(state) <= 30
                     \/ match_phase(state) = "death"
            bd == ball.is_boundary \/ ball.is_six
            p  == \/ state.consecutive_dots >= 3
                  \/ state.target > 0 /\ rrr(state) > 1200 /\ ball.runs <= 1
            o  == /\ state.balls_in_current_over = 0 /\ state.overs_completed > 0
                  /\ ball.extras_type \notin {"wide", "noball"}
        IN  /\ br \in {"wicket_drama", "extra_gift", "boundary_momentum",
                       "pressure_builder", "over_transition", "routine"}
            /\ (br = "wicket_drama") = w
            /\ (br = "extra_gift") = (~w /\ e)
            /\ (br = "boundary_momentum") = (~w /\ ~e /\ bd)
            /\ (br = "pressure_builder") = (~w /\ ~e /\ ~bd /\ p)
            /\ (br = "over_transition") = (~w /\ ~e /\ ~bd /\ ~p /\ o)
            /\ (br = "routine") = (~w /\ ~e /\ ~bd /\ ~p /\ ~o)

C10_Witness ==
    /\ Analyzed
    /\ ball = Stumped
    /\ state.target = SmallTarget
    /\ result[1].branch = "wicket_drama"

\* the branch, pivot flag and notes that analyze returned for `ball`
Branch == result[1].branch

HasNote(tag) ==
    \E i \in 1..Len(result[1].context_notes) : result[1].context_notes[i][1] = tag

\* a wide or a no-ball that is not a wicket delivery
GiftCandidate(b) == b.extras_type \in {"wide", "noball"} /\ ~b.is_wicket

\* C11: a non-wicket wide or no-ball is extra_gift exactly when the innings is
\* a chase that needs at most 30 after the ball, or the phase is death; needing
\* exactly 30 is extra_gift, needing 31 outside death is not.
C11_ExtraGift ==
    Analyzed /\ GiftCandidate(ball) =>
        (Branch = "extra_gift" <=>
            \/ state.target > 0 /\ Max(state.target - state.total_runs, 0) <= 30
            \/ match_phase(state) = "death")

C11_Witness ==
    /\ Analyzed
    /\ ball = Wide
    /\ state.target - state.total_runs = 30
    /\ match_phase(state) = "powerplay"
    /\ Branch = "extra_gift"

\* a dot ball: no run off the bat, no extra, no wicket
DotBall(b) == b.runs = 0 /\ b.extras = 0 /\ ~b.is_wicket

\* C12: the consecutive-dot count is the length of the current run of dot
\* balls, this delivery included; the third and every later dot of a run is
\* pressure_builder, and a first or second dot is pressure_builder only
\* through the required-rate rule of a chase.
C12_DotShape ==
    Analyzed /\ DotBall(ball) =>
        /\ state.consecutive_dots >= 3 => Branch = "pressure_builder"
        /\ state.consecutive_dots < 3 /\ Branch = "pressure_builder" =>
                state.target > 0 /\ rrr(state) > 1200

C12_DotStep ==
    IsUpdateStep =>
        state'.consecutive_dots =
            IF DotBall(ball') THEN state.consecutive_dots + 1 ELSE 0

C12_ThirdDot == []C12_DotShape /\ [][C12_DotStep]_vars

C12_Witness ==
    /\ Analyzed
    /\ ball = Dot
    /\ state.target = 0
    /\ state.consecutive_dots = 3
    /\ Branch = "pressure_builder"

\* C13: in an innings with target 0 the match-situation label is empty (no
\* situation note is written) and a delivery is pressure_builder only through
\* three or more consecutive dots.
C13_FirstInnings ==
    Analyzed /\ state.target = 0 =>
        /\ _assess_match_situation(state) = <<>>
        /\ ~HasNote("MATCH SITUATION")
        /\ Branch = "pressure_builder" => state.consecutive_dots >= 3

C13_Witness ==
    /\ Analyzed
    /\ state.target = 0
    /\ n_fed = 1
    /\ ball = Single
    /\ Branch = "routine"
    /\ HasNote("Phase")

\* the delivery completed an over: it is legal and the legal balls bowled
\* are a positive multiple of six
SixthLegalBall ==
    Legal(ball) /\ state.total_balls_bowled > 0 /\ state.total_balls_bowled % 6 = 0

\* C14: a delivery is over_transition exactly when it is the sixth legal ball
\* of its over and none of the wicket, extra_gift, boundary and
\* pressure_builder rules matched; a wide or no-ball that opens a new over is
\* never over_transition.
C14_OverTransition ==
    Analyzed =>
        (Branch = "over_transition" <=>
            /\ SixthLegalBall
            /\ ~ball.is_wicket
            /\ ~ExtraGiftRule(state, ball)
            /\ ~(ball.is_boundary \/ ball.is_six)
            /\ ~PressureRule(state, ball))

C14_Witness ==
    /\ Analyzed
    /\ ball = Wide
    /\ state.overs_completed = 1
    /\ state.balls_in_current_over = 0
    /\ Branch = "routine"

\* C15: a six hit while the required rate after the ball is above 12 is a
\* pivot, whatever its branch, also off a no-ball classified extra_gift.
C15_SixIsPivot ==
    Analyzed /\ ball.is_six /\ rrr(state) > 1200 => result[1].is_pivot

C15_Witness ==
    /\ Analyzed
    /\ ball = NoBallSix
    /\ rrr(state) > 1200
    /\ Branch = "extra_gift"
    /\ result[1].is_pivot

\* the required rate as it stood before `ball`, in tenths, and the number of
\* balls it is taken over
BallsBefore == balls_remaining(state) + (IF Legal(ball) THEN 1 ELSE 0)

RateBefore ==
    RoundDiv(60 * (runs_needed(state) + ball.runs + ball.extras), BallsBefore)

RateGap ==
    IF 10 * RateBefore >= rrr(state) THEN 10 * RateBefore - rrr(state)
    ELSE rrr(state) - 10 * RateBefore

\* C16: calculate_equation_shift returns nothing when the delivery's runs plus
\* extras is at most 1; otherwise it returns a string exactly when the
\* required rates before and after the ball differ by at least 0.5, a
\* difference of exactly 0.5 included.
C16_EquationShift ==
    Analyzed /\ BallsBefore > 0 =>
        IF ball.runs + ball.extras <= 1
        THEN result[1].equation_shift = <<>>
        ELSE result[1].equation_shift # <<>> <=> RateGap >= 50

\* the player a wicket delivery dismisses
Dismissed(b) == IF Truthy(b.dismissal_batter) THEN b.dismissal_batter ELSE b.batter

\* C17: a fall-of-wicket record is written on the wicket delivery with the
\* team score right after that delivery (the ball's own runs and extras
\* included) and the dismissed batter's runs at that moment, and no later
\* delivery changes a record of the log.
C17_FowStep ==
    IsUpdateStep =>
        LET old == state.fall_of_wickets
            new == state'.fall_of_wickets
        IN  IF ball'.is_wicket
            THEN /\ Len(new) = Len(old) + 1
                 /\ SubSeq(new, 1, Len(old)) = old
                 /\ new[Len(new)].team_score = state.total_runs + ball'.runs + ball'.extras
                 /\ new[Len(new)].team_score = state'.total_runs
                 /\ new[Len(new)].batter = Dismissed(ball')
                 /\ new[Len(new)].batter_runs =
                        IF InDict(state'.batters, Dismissed(ball'))
                        THEN Get(state'.batters, Dismissed(ball')).runs ELSE 0
            ELSE new = old

C17_FowSnapshot == [][C17_FowStep]_vars

C17_Witness ==
    /\ Len(state.fall_of_wickets) = 1
    /\ state.fall_of_wickets[1].how = "run_out"
    /\ state.fall_of_wickets[1].team_score = 2
    /\ state.total_runs = 4

\* the situation label written into the notes, <<>> when there is none
SituationLabel ==
    IF HasNote("MATCH SITUATION")
    THEN LET i == CHOOSE i \in 1..Len(result[1].context_notes) :
                      result[1].context_notes[i][1] = "MATCH SITUATION"
         IN  result[1].context_notes[i][2]
    ELSE <<>>

LastOverLabels ==
    {"LAST OVER THRILLER", "LAST OVER need boundaries", "LAST OVER virtually impossible"}

\* C18: in an undecided chase (runs still needed, fewer than 10 wickets down)
\* with 6 or fewer balls remaining, the match-situation label is one of the
\* last-over labels, whatever the required-rate bands would say.
C18_LastOverOverrides ==
    /\ Analyzed
    /\ state.target > 0 /\ runs_needed(state) > 0 /\ state.wickets < 10
    /\ balls_remaining(state) <= 6
    => /\ SituationLabel # <<>>
       /\ SituationLabel[1] \in LastOverLabels

\* C19: the transition flags are computed anew on every update: is_new_bowler
\* is true exactly when the bowler differs from the bowler of the preceding
\* delivery (false on the first delivery), is_new_over is set with it and only
\* with it, and is_strike_change is true only when the striker differs from
\* the striker of the preceding delivery.
C19_TransitionStep ==
    IsUpdateStep =>
        /\ state'.is_new_bowler = (n_fed > 0 /\ ball'.bowler # ball.bowler)
        /\ state'.is_new_bowler => state'.is_new_over
        /\ state'.is_new_over => state'.is_new_bowler
        /\ state'.is_strike_change => n_fed > 0 /\ ball'.batter # ball.batter

C19_TransitionFlags == [][C19_TransitionStep]_vars

C19_Witness ==
    /\ Len(state.bowlers) = 2
    /\ state.previous_bowler = state.current_bowler
    /\ ~state.is_new_bowler
    /\ ~state.is_new_over
    /\ ~state.is_strike_change
    /\ state.previous_batter = state.current_batter

\* the names of a delivery that the batter map does not hold yet
NewNames(batters, b) ==
    {n \in {b.batter, b.non_batter} : Truthy(n) /\ ~InDict(batters, n)}

\* C20: is_new_batter is true on exactly the deliveries whose striker or
\* non-striker is not in the batter map before the update, and new_batter_name
\* is then one of those players; otherwise the flag is false and the name is
\* empty.
C20_NewBatterStep ==
    IsUpdateStep =>
        /\ state'.is_new_batter = (NewNames(state.batters, ball') # {})
        /\ state'.is_new_batter => state'.new_batter_name \in NewNames(state.batters, ball')
        /\ ~state'.is_new_batter => state'.new_batter_name = None

C20_NewBatter == [][C20_NewBatterStep]_vars

\* C20 as amended: from the second delivery of the innings on, is_new_batter
\* is true on exactly the deliveries whose striker or non-striker is not in
\* the batter map before the update, and new_batter_name is then one of those
\* players; on the first delivery of the innings, and on every other
\* delivery, the flag is false and the name is empty.
C20_AfterFirstStep ==
    IsUpdateStep =>
        IF n_fed = 0
        THEN ~state'.is_new_batter /\ state'.new_batter_name = None
        ELSE /\ state'.is_new_batter = (NewNames(state.batters, ball') # {})
             /\ state'.is_new_batter =>
                    state'.new_batter_name \in NewNames(state.batters, ball')
             /\ ~state'.is_new_batter => state'.new_batter_name = None

C20_NewBatterAfterFirst == [][C20_AfterFirstStep]_vars

C20_Witness ==
    /\ ball = Six
    /\ n_fed >= 2
    /\ state.is_new_batter
    /\ state.new_batter_name = "C"
    /\ Get(state.batters, "C").position = 3

\* the number of wickets that were down before the delivery now in `ball`
WicketsAlreadyDown == state.wickets - (IF ball.is_wicket THEN 1 ELSE 0)

\* the dismissed batter's runs at the dismissal, as the log records them
DismissedRuns == state.fall_of_wickets[Len(state.fall_of_wickets)].batter_runs

\* a delivery no pivot rule but the wicket rule can match: no boundary, no
\* six, no extras
WicketRuleOnly(b) == b.is_wicket /\ ~b.is_boundary /\ ~b.is_six /\ b.extras = 0

\* C21: a wicket delivery is a pivot when the dismissed batter has 30 or more
\* runs at the dismissal or when 7 or more wickets were already down when it
\* fell; a wicket that meets neither, and no other pivot rule, is not a pivot.
C21_WicketPivot ==
    Analyzed /\ WicketRuleOnly(ball) =>
        (result[1].is_pivot <=> DismissedRuns >= 30 \/ WicketsAlreadyDown >= 7)

\* the runs off the bat of the legal delivery before the one now in `ball`,
\* read from the rolling window; -1 when no legal delivery came before
PrecedingTrackedRuns ==
    LET w == state.last_6_balls
        k == IF Legal(ball) THEN Len(w) - 1 ELSE Len(w)
    IN  IF k >= 1 THEN w[k] ELSE -1

\* a boundary that only the back-to-back rule can make a pivot: no wicket, the
\* required rate at most 12, and neither the death overs nor the last 12 balls
OnlyBackToBack(b) ==
    /\ b.is_boundary \/ b.is_six
    /\ ~b.is_wicket
    /\ rrr(state) <= 1200
    /\ match_phase(state) # "death"
    /\ balls_remaining(state) > 12

\* C22: the back-to-back rule fires on a boundary or six exactly when the
\* legal delivery immediately before it yielded 4 or more runs off the bat,
\* also when the boundary itself comes off a no-ball.
C22_BackToBack ==
    Analyzed /\ OnlyBackToBack(ball) =>
        (result[1].is_pivot <=> PrecedingTrackedRuns >= 4)

\* a delivery with extras that only the tight-game rule can make a pivot
OnlyTightExtras(b) == b.extras > 0 /\ ~b.is_wicket /\ ~b.is_boundary /\ ~b.is_six

\* C23: the tight-game rule fires only for a wide or no-ball with at most 12
\* balls remaining and at most 20 runs needed in a chase; a bye or leg-bye,
\* and any extra of a first innings, is never a pivot by this rule.
C23_TightExtras ==
    Analyzed /\ OnlyTightExtras(ball) /\ result[1].is_pivot =>
        /\ ball.extras_type \in {"wide", "noball"}
        /\ state.target > 0
        /\ balls_remaining(state) <= 12
        /\ Max(state.target - state.total_runs, 0) <= 20

\* what the chase needed, and the balls it had left, before the delivery now
\* in `ball`
NeededBefore == Max(state.target - (state.total_runs - ball.runs - ball.extras), 0)

RemainingBefore ==
    Max(FormatBalls - (state.total_balls_bowled - (IF Legal(ball) THEN 1 ELSE 0)), 0)

\* C24: the required rate before the ball that calculate_equation_shift
\* reconstructs is the required rate the chase had before the delivery, at
\* the one decimal it is reported with, the winning hit that overshoots the
\* target included.
C24_RateBefore ==
    Analyzed /\ state.target > 0 /\ result[1].equation_shift # <<>> =>
        result[1].equation_shift[1][1] = RoundDiv(60 * NeededBefore, RemainingBefore)

RECURSIVE SumBowlerWickets(_)
SumBowlerWickets(d) == IF d = <<>> THEN 0 ELSE Head(d).wickets + SumBowlerWickets(Tail(d))

\* the wicket deliveries processed so far that were not run-outs, counted in
\* the fall-of-wickets log
NotRunOuts ==
    Cardinality({i \in 1..Len(state.fall_of_wickets) : state.fall_of_wickets[i].how # "run_out"})

\* C25: the wickets of all bowler records add up to the number of wicket
\* deliveries processed whose wicket_type is not run_out, and never to more
\* than wickets.
C25_CreditShape ==
    /\ SumBowlerWickets(state.bowlers) = NotRunOuts
    /\ SumBowlerWickets(state.bowlers) <= state.wickets

C25_CreditStep ==
    IsUpdateStep =>
        SumBowlerWickets(state'.bowlers) = SumBowlerWickets(state.bowlers)
            + (IF ball'.is_wicket /\ ball'.wicket_type # "run_out" THEN 1 ELSE 0)

C25_BowlerWickets == []C25_CreditShape /\ [][C25_CreditStep]_vars

C25_Witness ==
    /\ state.wickets = 3
    /\ SumBowlerWickets(state.bowlers) = 2
    /\ ball.is_wicket
    /\ \E i \in 1..Len(state.fall_of_wickets) : state.fall_of_wickets[i].how = "run_out"
    /\ Len(state.bowlers) >= 2

\* the fragments of group 5 (partnership size), group 7 (momentum) and
\* group 8 (innings statistics)
SuppressedOnWicket ==
    {"partnership",
     "Last 6 balls", "consecutive dots", "BOUNDARY DROUGHT", "No boundary for",
     "Scoring is", "Last 3 overs",
     "Innings boundaries", "Extras so far", "Innings dot%", "Powerplay finished"}

LastNote == result[1].context_notes[Len(result[1].context_notes)]

\* C26: the notes of a wicket delivery hold no partnership-size fragment and
\* no fragment of groups 7 and 8, and in the death overs of a chase they still
\* end with the equation reminder.
C26_WicketNotes ==
    Analyzed /\ ball.is_wicket =>
        /\ \A tag \in SuppressedOnWicket : ~HasNote(tag)
        /\ match_phase(state) = "death" /\ state.target > 0 => LastNote[1] = "Need"

C26_Witness ==
    /\ Analyzed
    /\ ball.is_wicket
    /\ match_phase(state) = "death"
    /\ state.target > state.total_runs
    /\ Len(state.last_6_balls) = 6
    /\ HasNote("FOW")
    /\ LastNote[1] = "Need"

\* the delivery now in `ball` is the legal ball that completed over 6
CompletesOverSix == SixthLegalBall /\ state.overs_completed = 6

\* C27: 'Powerplay finished' is in the notes of exactly the delivery that
\* completes over 6, when that delivery is not a wicket, and of no other.
C27_PowerplayFinished ==
    Analyzed => (HasNote("Powerplay finished") <=> CompletesOverSix /\ ~ball.is_wicket)

\* the runs of the stand that the wicket now in `ball` ended: the team score
\* at this wicket less the team score at the wicket before it
StandBroken ==
    LET fow == state.fall_of_wickets
        n == Len(fow)
    IN  fow[n].team_score - (IF n >= 2 THEN fow[n - 1].team_score ELSE 0)

NoteWith(tag) ==
    result[1].context_notes[CHOOSE i \in 1..Len(result[1].context_notes) :
                                result[1].context_notes[i][1] = tag]

\* C28: on a wicket that ends a partnership worth more than 10 runs the notes
\* hold the partnership-broken fragment, with the runs of the stand just
\* broken.
C28_StandBroken ==
    Analyzed /\ ball.is_wicket /\ StandBroken > 10 =>
        /\ HasNote("stand broken")
        /\ NoteWith("stand broken")[3] = StandBroken

\* the legal balls bowled when a wicket of the log fell, from its overs text
FowBalls(f) == StrInt(SplitDot(f.overs)[1]) * 6 + StrInt(SplitDot(f.overs)[2])

\* the legal balls from the wicket before to the wicket now in `ball`
SinceLastWicket ==
    LET fow == state.fall_of_wickets
        n == Len(fow)
    IN  FowBalls(fow[n]) - FowBalls(fow[n - 1])

\* C29: 'Back-to-back blow' is in the notes of a wicket only if at most 6
\* legal balls were bowled between the wicket before and this one, and it
\* reports that distance; a wicket more than 6 legal balls after the one
\* before does not get it.
C29_BackToBackBlow ==
    Analyzed /\ ball.is_wicket /\ HasNote("Back-to-back blow") =>
        /\ Len(state.fall_of_wickets) >= 2
        /\ SinceLastWicket <= 6
        /\ NoteWith("Back-to-back blow")[2] = SinceLastWicket

\* C30: consecutive_dots grows by exactly 1 on a dot ball and is reset to 0
\* exactly by a legal delivery with runs or extras that is not a wicket; a
\* wicket delivery, a wide and a no-ball leave the counter as it was.
C30_DotCounterStep ==
    IsUpdateStep =>
        state'.consecutive_dots =
            IF DotBall(ball') THEN state.consecutive_dots + 1
            ELSE IF Legal(ball') /\ ~ball'.is_wicket THEN 0
            ELSE state.consecutive_dots

C30_DotCounter == [][C30_DotCounterStep]_vars

\* the batter records marked out
OutCount == Cardinality({i \in 1..Len(state.batters) : state.batters[i].is_out})

\* no player is dismissed twice in the innings
NoRepeatDismissal ==
    \A i, j \in 1..Len(state.fall_of_wickets) :
        i # j => state.fall_of_wickets[i].batter # state.fall_of_wickets[j].batter

\* C31: the dismissed batter of every wicket delivery is marked out, so the
\* batter records with is_out set are as many as wickets, also when the row
\* names no non-striker and the non-striker is the one dismissed.
C31_DismissedMarkedOut == NoRepeatDismissal => OutCount = state.wickets

\* the over, counted from 1, that the delivery now in `ball` belongs to
OverOfBall ==
    IF Legal(ball) THEN (state.total_balls_bowled + 5) \div 6
    ELSE state.total_balls_bowled \div 6 + 1

PhaseOfOver(o) == IF o <= 6 THEN "powerplay" ELSE IF o <= 15 THEN "middle" ELSE "death"

\* C33: the phase read from the state after a delivery is the phase of the
\* over the delivery belongs to, a wide or no-ball bowled before the first
\* legal ball of overs 7 and 16 included.
C33_PhaseOfDelivery == n_fed > 0 => match_phase(state) = PhaseOfOver(OverOfBall)

\* C36: an emitted equation shift reads 'From X per over down to Y' with Y
\* strictly below X.
C36_ShiftGoesDown ==
    Analyzed /\ result[1].equation_shift # <<>> =>
        result[1].equation_shift[1][2] < 10 * result[1].equation_shift[1][1]

\* C37: in an innings with no target no delivery gets an equation shift.
C37_NoShiftWithoutTarget ==
    Analyzed /\ state.target = 0 => result[1].equation_shift = <<>>

\* C38: when a chase has no ball left and still needs runs, the situation
\* label is not COMFORTABLE, IN CONTROL or LAST OVER THRILLER.
C38_FailedChaseLabel ==
    Analyzed /\ state.target > state.total_runs /\ state.total_balls_bowled >= FormatBalls =>
        \/ SituationLabel = <<>>
        \/ SituationLabel[1] \notin {"COMFORTABLE", "IN CONTROL", "LAST OVER THRILLER"}

\* the wickets that fell within the last 18 legal balls up to the current
\* position
WicketsInLast18 ==
    Cardinality({i \in 1..Len(state.fall_of_wickets) :
                    state.total_balls_bowled - FowBalls(state.fall_of_wickets[i]) <= 17})

\* C32: is_collapse holds exactly when at least three wickets fell within the
\* last 18 legal balls up to the current position; three wickets spread over
\* 19 or more legal balls are no collapse.
C32_Collapse == n_fed > 0 => (is_collapse(state) <=> WicketsInLast18 >= 3)

\* the replay has stored a context for the delivery now in `ball`
Stored == context # <<>>

Triggers == context[1].narratives

TriggerTypes == {Triggers[i].type : i \in 1..Len(Triggers)}

\* the innings is over after the delivery now in `ball`, as the claim puts it
InningsEnded ==
    IF state.target > 0
    THEN \/ state.target <= state.total_runs
         \/ state.wickets >= 10
         \/ state.total_balls_bowled >= FormatBalls
    ELSE state.wickets >= 10 \/ state.total_balls_bowled >= FormatBalls

\* C34: the first delivery after which the innings is over is the last one
\* processed: its triggers are the single result trigger, with no milestone,
\* new-batter, end-of-over or phase-change trigger, and no later delivery is
\* fed to the accumulator or given a context.
C34_LastShape ==
    Stored =>
        /\ context[1].match_over <=> InningsEnded
        /\ InningsEnded =>
            /\ Len(Triggers) = 1
            /\ Triggers[1].type = "second_innings_end"

C34_LastStep == ~(Stored /\ InningsEnded)

StrikerRuns == Get(state.batters, ball.batter).runs

StrikerRunsBefore == StrikerRuns - ball.runs

MilestoneTypes ==
    {Triggers[i].milestone_type : i \in {j \in 1..Len(Triggers) : Triggers[j].type = "milestone"}}

\* C35: a FIFTY trigger is emitted on exactly the delivery that takes the
\* striker from below 50 to 50 or more, and a HUNDRED trigger on exactly the
\* delivery that crosses 100.
C35_Milestone ==
    Stored /\ ~InningsEnded =>
        /\ "FIFTY" \in MilestoneTypes <=> StrikerRunsBefore < 50 /\ StrikerRuns >= 50
        /\ "HUNDRED" \in MilestoneTypes <=> StrikerRunsBefore < 100 /\ StrikerRuns >= 100

\* C40: a match-result trigger is attached only to a delivery of the chase
\* innings; the delivery that ends a first innings carries none.
C40_ResultInChaseOnly ==
    Stored /\ "second_innings_end" \in TriggerTypes => state.target > 0

\* both replays of the same rows have run
BothReplayed == context_updates # <<>> /\ target_context # <<>>

\* the full replay reached the target delivery
TargetReached == target_context[1].ball_id <= Len(context_updates[1])

\* C39: for every delivery the full-innings replay reaches, the replay up to
\* that delivery produces the same logic result, tracking fields and triggers
\* as the full replay stores for it, also when rows lack the optional
\* non-striker or dismissed-player fields.
C39_SameContext ==
    IF BothReplayed
    THEN IF TargetReached
         THEN target_context[1].context = <<context_updates[1][target_context[1].ball_id]>>
         ELSE TRUE
    ELSE TRUE

====
